---- MODULE Spec2Model ----
(***************************************************************************)
(* Model of drivers/i2s/i2s_ll_stm32.c: the STM32 I2S driver's streaming   *)
(* engine.  One application thread issues configure/trigger/read/write     *)
(* calls; the two DMA completion callbacks and the peripheral fault ISR    *)
(* run in interrupt context and preempt the thread wherever it does not    *)
(* hold the interrupt lock.  The driver is modelled as built with          *)
(* CONFIG_I2S_STM32_FULL_DUPLEX; the two policy options                    *)
(* CONFIG_I2S_STM32_RX_OVERRUN_DROP and                                    *)
(* CONFIG_I2S_STM32_TX_UNDERRUN_LAST_REPEAT are chosen in Init and never   *)
(* change.                                                                 *)
(***************************************************************************)
EXTENDS Integers, Sequences, FiniteSets, TLC

(* ----------------------------- bounds ---------------------------------- *)
\* CONFIG_I2S_STM32_RX_BLOCK_COUNT / CONFIG_I2S_STM32_TX_BLOCK_COUNT
RX_BLOCK_COUNT == 1
TX_BLOCK_COUNT == 1
\* the blocks of the RX and of the TX memory slab: enough for the active block,
\* a full queue and, on RX, the block being handed over
NumRxBlocks == RX_BLOCK_COUNT + 2
NumTxBlocks == TX_BLOCK_COUNT + 1
\* the application makes at most MaxCalls calls and the hardware raises at
\* most MaxIrqs interrupts
MaxCalls == 4
MaxIrqs == 2
\* queue-only specification: largest ring length and number of operations
MaxRingLen == 3
MaxQueueOps == 4
\* in the loopback specification the application makes at most MaxLoopCalls
\* calls and the hardware raises at most MaxLoopIrqs interrupts
MaxLoopCalls == 7
MaxLoopIrqs == 4

(* ---------------------------- constants -------------------------------- *)
NULL == 0
EIO == 5
EAGAIN == 11
ENOMEM == 12
EINVAL == 22
\* cfg.block_size of the one configuration the application uses
BLOCK_SIZE == 1

I2S_STATE_NOT_READY == "NOT_READY"
I2S_STATE_READY == "READY"
I2S_STATE_RUNNING == "RUNNING"
I2S_STATE_STOPPING == "STOPPING"
I2S_STATE_ERROR == "ERROR"
States == {I2S_STATE_NOT_READY, I2S_STATE_READY, I2S_STATE_RUNNING,
           I2S_STATE_STOPPING, I2S_STATE_ERROR}

I2S_TRIGGER_START == "START"
I2S_TRIGGER_STOP == "STOP"
I2S_TRIGGER_DRAIN == "DRAIN"
I2S_TRIGGER_DROP == "DROP"
I2S_TRIGGER_PREPARE == "PREPARE"
Cmds == {I2S_TRIGGER_START, I2S_TRIGGER_STOP, I2S_TRIGGER_DRAIN,
         I2S_TRIGGER_DROP, I2S_TRIGGER_PREPARE}

I2S_DIR_RX == "rx"
I2S_DIR_TX == "tx"
I2S_DIR_BOTH == "both"
Dirs == {I2S_DIR_RX, I2S_DIR_TX}

\* the two memory slabs (cfg.mem_slab of each stream) hold disjoint blocks
RxSlab == 1..NumRxBlocks
TxSlab == (NumRxBlocks + 1)..(NumRxBlocks + NumTxBlocks)
Blocks == RxSlab \cup TxSlab
Slab(d) == IF d = I2S_DIR_RX THEN RxSlab ELSE TxSlab
BlockCount(d) == IF d = I2S_DIR_RX THEN RX_BLOCK_COUNT ELSE TX_BLOCK_COUNT

(* ------------------------- the block queue ------------------------------ *)
\* #define MODULO_INC(val, max) { val = (++val < max) ? val : 0; }
MODULO_INC(val, max) == IF val + 1 < max THEN val + 1 ELSE 0

queue_item(b, s) == [mem_block |-> b, size |-> s]

\* a ring_buf as static storage leaves it: all zero, with len slots
ring_buf(len) == [buf |-> [i \in 0..(len - 1) |-> queue_item(NULL, 0)],
                  head |-> 0, tail |-> 0, len |-> len]

\* queue_get writing the caller's variables before its test for an empty ring
queue_get_writes_first(rb, mb, sz) ==
    IF rb.tail = rb.head
    THEN [ret |-> -ENOMEM, rb |-> rb,
          mem_block |-> rb.buf[rb.tail].mem_block,
          size |-> rb.buf[rb.tail].size]
    ELSE [ret |-> 0,
          rb |-> [rb EXCEPT !.tail = MODULO_INC(rb.tail, rb.len)],
          mem_block |-> rb.buf[rb.tail].mem_block,
          size |-> rb.buf[rb.tail].size]

\* queue_get(rb, &mem_block, &size): mb and sz are the caller's variables
\* before the call; the result carries them as the call leaves them.
queue_get(rb, mb, sz) ==
    IF rb.tail = rb.head
    THEN [ret |-> -ENOMEM, rb |-> rb, mem_block |-> mb, size |-> sz]
    ELSE [ret |-> 0,
          rb |-> [rb EXCEPT !.tail = MODULO_INC(rb.tail, rb.len)],
          mem_block |-> rb.buf[rb.tail].mem_block,
          size |-> rb.buf[rb.tail].size]

\* queue_put without its test for a full ring
queue_put_no_full_test(rb, mem_block, size) ==
    [ret |-> 0,
     rb |-> [rb EXCEPT !.buf[rb.head] = queue_item(mem_block, size),
                       !.head = MODULO_INC(rb.head, rb.len)]]

queue_put(rb, mem_block, size) ==
    LET head_next == MODULO_INC(rb.head, rb.len)
    IN  IF head_next = rb.tail
        THEN [ret |-> -ENOMEM, rb |-> rb]
        ELSE [ret |-> 0,
              rb |-> [rb EXCEPT !.buf[rb.head] = queue_item(mem_block, size),
                                !.head = head_next]]

\* the entries a consumer can still get, oldest first
RECURSIVE QueueEntriesFrom(_, _)
QueueEntriesFrom(rb, i) ==
    IF i = rb.head THEN <<>>
    ELSE <<rb.buf[i]>> \o QueueEntriesFrom(rb, MODULO_INC(i, rb.len))
QueueEntries(rb) == QueueEntriesFrom(rb, rb.tail)
QueueBlocks(rb) == {QueueEntries(rb)[i].mem_block : i \in 1..Len(QueueEntries(rb))}

\* no queue call made yet: the caller's variables are NULL and 0
NoQueueCall == [op |-> "none", ret |-> 0, mem_block |-> NULL, size |-> 0]

(* ------------------------------ state ----------------------------------- *)
VARIABLES
    \* build options (fixed by Init)
    RX_OVERRUN_DROP, TX_UNDERRUN_LAST_REPEAT,
    \* struct stream, one per direction
    state, mem_block, mem_block_size, last_block, mem_block_queue, sem, cfg,
    \* struct stream fields only the TX stream uses
    last_mem_block, last_mem_block_size, tx_underrun,
    \* the memory slabs: the blocks neither the driver nor a call in progress
    \* holds (the application may hold some of them)
    slab_free,
    \* DMA channels and the I2S peripheral
    dma_active, dma_addr, dmareq, err_it, i2s_enabled, transfer_mode,
    \* CPU interrupt lock
    irq_locked,
    \* the application thread: position inside the call in progress
    pc, call,
    \* what the step just taken was and how it ended
    ev,
    \* calls the application may still make and interrupts the hardware may
    \* still raise
    n_calls, n_irqs,
    \* the queue-only specification: a ring buffer, its operation logs, and
    \* the last call with the caller's output variables as it left them
    rb, put_log, get_log, q_call,
    \* the loopback specification: the tag each block carries (0 for none),
    \* the blocks written and read back so far, and whether the data of the
    \* block the TX channel is armed with has gone over the wire
    tag, n_written, n_read, tx_sent

drv_vars == <<state, mem_block, mem_block_size, last_block, mem_block_queue,
              sem, cfg, last_mem_block, last_mem_block_size, tx_underrun,
              slab_free, dma_active, dma_addr, dmareq, err_it, i2s_enabled,
              transfer_mode, irq_locked>>
opt_vars == <<RX_OVERRUN_DROP, TX_UNDERRUN_LAST_REPEAT>>
q_vars == <<rb, put_log, get_log, q_call>>
loop_vars == <<tag, n_written, n_read, tx_sent>>
\* what only the queue-only and the loopback specification change
scn_vars == <<q_vars, loop_vars>>
bud_vars == <<n_calls, n_irqs>>
vars == <<opt_vars, drv_vars, pc, call, ev, bud_vars, scn_vars>>

\* The driver and hardware state as one record, so that the C functions can
\* be written as functions from machine state to machine state.  ub collects
\* the undefined behaviour met on the way.
M == [state |-> state, mem_block |-> mem_block,
      mem_block_size |-> mem_block_size, last_block |-> last_block,
      mem_block_queue |-> mem_block_queue, sem |-> sem, cfg |-> cfg,
      last_mem_block |-> last_mem_block,
      last_mem_block_size |-> last_mem_block_size,
      tx_underrun |-> tx_underrun, slab_free |-> slab_free,
      dma_active |-> dma_active, dma_addr |-> dma_addr, dmareq |-> dmareq,
      err_it |-> err_it, i2s_enabled |-> i2s_enabled,
      transfer_mode |-> transfer_mode, irq_locked |-> irq_locked,
      ub |-> {}]

Commit(m) ==
    /\ state' = m.state
    /\ mem_block' = m.mem_block
    /\ mem_block_size' = m.mem_block_size
    /\ last_block' = m.last_block
    /\ mem_block_queue' = m.mem_block_queue
    /\ sem' = m.sem
    /\ cfg' = m.cfg
    /\ last_mem_block' = m.last_mem_block
    /\ last_mem_block_size' = m.last_mem_block_size
    /\ tx_underrun' = m.tx_underrun
    /\ slab_free' = m.slab_free
    /\ dma_active' = m.dma_active
    /\ dma_addr' = m.dma_addr
    /\ dmareq' = m.dmareq
    /\ err_it' = m.err_it
    /\ i2s_enabled' = m.i2s_enabled
    /\ transfer_mode' = m.transfer_mode
    /\ irq_locked' = m.irq_locked

(* --------------------- kernel services the driver uses ------------------ *)
\* k_mem_slab_alloc(slab, &mem, K_NO_WAIT): a free block of the slab, or
\* -ENOMEM with *mem = NULL.  slab_ok is FALSE when the application holds
\* every block the driver does not.  A zeroed cfg has no slab (mem_slab ==
\* NULL).
MinOf(S) == CHOOSE x \in S : \A y \in S : x <= y
k_mem_slab_alloc(m, d, slab_ok) ==
    LET avail == Slab(d) \cap m.slab_free
    IN  IF m.cfg[d] = 0 \/ avail = {} \/ ~slab_ok
        THEN [ret |-> -ENOMEM, mem |-> NULL,
              m |-> IF m.cfg[d] = 0
                    THEN [m EXCEPT !.ub = @ \cup {"null_slab"}] ELSE m]
        ELSE [ret |-> 0, mem |-> MinOf(avail),
              m |-> [m EXCEPT !.slab_free = @ \ {MinOf(avail)}]]

\* k_mem_slab_free(slab, &mem): freeing NULL or a block that is already free
\* is undefined behaviour; it is recorded and the free list left as it is.
k_mem_slab_free(m, b) ==
    IF b = NULL THEN [m EXCEPT !.ub = @ \cup {"null_free"}]
    ELSE IF b \in m.slab_free THEN [m EXCEPT !.ub = @ \cup {"double_free"}]
    ELSE [m EXCEPT !.slab_free = @ \cup {b}]

\* k_sem_give saturates at the limit given to k_sem_init
k_sem_give(m, d) ==
    [m EXCEPT !.sem[d] = IF @ < BlockCount(d) THEN @ + 1 ELSE @]
k_sem_reset(m, d) == [m EXCEPT !.sem[d] = 0]

\* dma_stop(stream->dev_dma, stream->dma_channel)
dma_stop(m, d) == [m EXCEPT !.dma_active[d] = FALSE, !.dma_addr[d] = NULL]
\* dma_config/dma_reload followed by dma_start; ok is the controller's answer
dma_arm(m, d, addr, ok) ==
    IF ok THEN [m EXCEPT !.dma_active[d] = TRUE, !.dma_addr[d] = addr]
    ELSE [m EXCEPT !.dma_active[d] = FALSE, !.dma_addr[d] = NULL]

FULL_DUPLEX == "FULL_DUPLEX"
IsFullDuplexMode(m) == m.transfer_mode = FULL_DUPLEX

(* --------------------------- stream disable ----------------------------- *)
\* LL_I2S_DisableDMAReq_RX/TX of the streams ds and LL_I2S_DisableIT_ERR
ll_i2s_disable_req(m, ds) ==
    [m EXCEPT !.dmareq = [d \in Dirs |-> IF d \in ds THEN FALSE ELSE @[d]],
              !.err_it = FALSE]

\* if (stream->mem_block != NULL) {
\*     k_mem_slab_free(stream->cfg.mem_slab, &stream->mem_block);
\*     stream->mem_block = NULL; }
free_mem_block(m, d) ==
    IF m.mem_block[d] # NULL
    THEN [k_mem_slab_free(m, m.mem_block[d]) EXCEPT !.mem_block[d] = NULL]
    ELSE m

\* #ifdef CONFIG_I2S_STM32_TX_UNDERRUN_LAST_REPEAT
\*     k_mem_slab_free(stream->cfg.mem_slab, &stream->last_mem_block);
free_last_mem_block(m) ==
    IF TX_UNDERRUN_LAST_REPEAT THEN k_mem_slab_free(m, m.last_mem_block)
    ELSE m

\* LL_I2S_Disable(cfg->i2s)
ll_i2s_disable(m) == [m EXCEPT !.i2s_enabled = FALSE]

rx_stream_disable(m) ==
    ll_i2s_disable(
        free_mem_block(
            dma_stop(ll_i2s_disable_req(m, {I2S_DIR_RX}), I2S_DIR_RX),
            I2S_DIR_RX))

tx_stream_disable(m) ==
    ll_i2s_disable(
        free_last_mem_block(
            free_mem_block(
                dma_stop(ll_i2s_disable_req(m, {I2S_DIR_TX}), I2S_DIR_TX),
                I2S_DIR_TX)))

full_duplex_stream_disable(m) ==
    ll_i2s_disable(
        free_last_mem_block(
            free_mem_block(
                dma_stop(
                    free_mem_block(
                        dma_stop(ll_i2s_disable_req(m, Dirs), I2S_DIR_RX),
                        I2S_DIR_RX),
                    I2S_DIR_TX),
                I2S_DIR_TX)))

\* stream->stream_disable(stream, dev)
stream_disable(m, d) ==
    IF d = I2S_DIR_RX THEN rx_stream_disable(m) ELSE tx_stream_disable(m)

(* ----------------------------- queue drop ------------------------------- *)
\* while (queue_get(&stream->mem_block_queue, &mem_block, &size) == 0)
\*     { k_mem_slab_free(stream->cfg.mem_slab, &mem_block); n++; }
RECURSIVE queue_drain(_, _, _)
queue_drain(m, d, n) ==
    IF queue_get(m.mem_block_queue[d], NULL, 0).ret # 0
    THEN [m |-> m, n |-> n]
    ELSE queue_drain(
             k_mem_slab_free(
                 [m EXCEPT !.mem_block_queue[d] =
                      queue_get(m.mem_block_queue[d], NULL, 0).rb],
                 queue_get(m.mem_block_queue[d], NULL, 0).mem_block),
             d, n + 1)

\* for (; n > 0; n--) { k_sem_give(&stream->sem); }
RECURSIVE sem_give_n(_, _, _)
sem_give_n(m, d, n) ==
    IF n = 0 THEN m ELSE sem_give_n(k_sem_give(m, d), d, n - 1)

\* the part of tx_queue_drop after the loop
tx_queue_drop_tail(m, n) == sem_give_n(free_last_mem_block(m), I2S_DIR_TX, n)

rx_queue_drop(m) == k_sem_reset(queue_drain(m, I2S_DIR_RX, 0).m, I2S_DIR_RX)

tx_queue_drop(m) ==
    tx_queue_drop_tail(queue_drain(m, I2S_DIR_TX, 0).m,
                       queue_drain(m, I2S_DIR_TX, 0).n)

\* stream->queue_drop(stream)
queue_drop(m, d) ==
    IF d = I2S_DIR_RX THEN rx_queue_drop(m) ELSE tx_queue_drop(m)

full_duplex_queue_drop(m) == tx_queue_drop(rx_queue_drop(m))

(* ----------------------------- stream start ----------------------------- *)
\* Each returns [ret, m]; slab_ok is whether the slab has a block to give and
\* dma_ok whether start_dma() succeeds.  stream->master only selects the
\* master or the slave variant of the transfer mode, which no branch of the
\* driver tells apart, so the mode is RX, TX or FULL_DUPLEX.

\* rx_stream_start_dma after its k_mem_slab_alloc, whose result is a
rx_stream_start_dma_block(a, full_duplex, dma_ok) ==
    IF a.ret < 0
    THEN [ret |-> a.ret, m |-> [a.m EXCEPT !.mem_block[I2S_DIR_RX] = a.mem]]
    ELSE [ret |-> IF dma_ok THEN 0 ELSE -EIO,
          m |-> dma_arm([a.m EXCEPT
                           !.mem_block[I2S_DIR_RX] = a.mem,
                           !.transfer_mode =
                               IF full_duplex THEN FULL_DUPLEX ELSE "RX"],
                        I2S_DIR_RX, a.mem, dma_ok)]

rx_stream_start_dma(m, full_duplex, slab_ok, dma_ok) ==
    rx_stream_start_dma_block(k_mem_slab_alloc(m, I2S_DIR_RX, slab_ok),
                              full_duplex, dma_ok)

\* the k_sem_give of the TX handler without its tx_underrun test
tx_sem_give_always(m) == k_sem_give(m, I2S_DIR_TX)

\* #ifdef CONFIG_I2S_STM32_TX_UNDERRUN_LAST_REPEAT
\*     if (stream->tx_underrun == false) { k_sem_give(&stream->sem); }
\* #else k_sem_give(&stream->sem);
tx_sem_give(m) ==
    IF TX_UNDERRUN_LAST_REPEAT /\ m.tx_underrun THEN m
    ELSE k_sem_give(m, I2S_DIR_TX)

\* tx_stream_start_dma from its k_sem_give on
tx_stream_start_dma_block(m, full_duplex, dma_ok) ==
    [ret |-> IF dma_ok THEN 0 ELSE -EIO,
     m |-> dma_arm([tx_sem_give(m) EXCEPT
                      !.transfer_mode =
                          IF full_duplex THEN FULL_DUPLEX ELSE "TX"],
                   I2S_DIR_TX, m.mem_block[I2S_DIR_TX], dma_ok)]

\* tx_stream_start_dma after its queue_get, whose result is g
tx_stream_start_dma_next(m, g, full_duplex, dma_ok) ==
    IF TX_UNDERRUN_LAST_REPEAT /\ g.ret = -ENOMEM
    THEN tx_stream_start_dma_block(
             [m EXCEPT !.mem_block_queue[I2S_DIR_TX] = g.rb,
                       !.mem_block[I2S_DIR_TX] = m.last_mem_block,
                       !.mem_block_size[I2S_DIR_TX] = m.last_mem_block_size,
                       !.tx_underrun = TRUE],
             full_duplex, dma_ok)
    ELSE IF g.ret < 0
    THEN [ret |-> g.ret,
          m |-> [m EXCEPT !.mem_block_queue[I2S_DIR_TX] = g.rb,
                          !.mem_block[I2S_DIR_TX] = g.mem_block,
                          !.mem_block_size[I2S_DIR_TX] = g.size]]
    ELSE tx_stream_start_dma_block(
             [m EXCEPT !.mem_block_queue[I2S_DIR_TX] = g.rb,
                       !.mem_block[I2S_DIR_TX] = g.mem_block,
                       !.mem_block_size[I2S_DIR_TX] = g.size],
             full_duplex, dma_ok)

\* tx_stream_start_dma from its queue_get on
tx_stream_start_dma_get(m, full_duplex, dma_ok) ==
    tx_stream_start_dma_next(
        m,
        queue_get(m.mem_block_queue[I2S_DIR_TX], m.mem_block[I2S_DIR_TX],
                  m.mem_block_size[I2S_DIR_TX]),
        full_duplex, dma_ok)

\* tx_stream_start_dma after the k_mem_slab_alloc of the last block, whose
\* result is a (CONFIG_I2S_STM32_TX_UNDERRUN_LAST_REPEAT only)
tx_stream_start_dma_last(a, full_duplex, dma_ok) ==
    IF a.ret # 0
    THEN [ret |-> -ENOMEM, m |-> [a.m EXCEPT !.last_mem_block = a.mem]]
    ELSE tx_stream_start_dma_get(
             [a.m EXCEPT !.last_mem_block = a.mem,
                         !.last_mem_block_size = a.m.cfg[I2S_DIR_TX],
                         !.tx_underrun = FALSE],
             full_duplex, dma_ok)

tx_stream_start_dma(m, full_duplex, slab_ok, dma_ok) ==
    IF TX_UNDERRUN_LAST_REPEAT
    THEN tx_stream_start_dma_last(k_mem_slab_alloc(m, I2S_DIR_TX, slab_ok),
                                  full_duplex, dma_ok)
    ELSE tx_stream_start_dma_get(m, full_duplex, dma_ok)

\* LL_I2S_EnableDMAReq_RX/TX of the streams ds, LL_I2S_EnableIT_ERR and
\* LL_I2S_Enable, when the DMA start r succeeded
ll_i2s_enable(r, ds) ==
    IF r.ret < 0 THEN r
    ELSE [ret |-> 0,
          m |-> [r.m EXCEPT
                   !.dmareq = [d \in Dirs |-> IF d \in ds THEN TRUE ELSE @[d]],
                   !.err_it = TRUE,
                   !.i2s_enabled = TRUE]]

rx_stream_start(m, slab_ok, dma_ok) ==
    ll_i2s_enable(rx_stream_start_dma(m, FALSE, slab_ok, dma_ok), {I2S_DIR_RX})

tx_stream_start(m, slab_ok, dma_ok) ==
    ll_i2s_enable(tx_stream_start_dma(m, FALSE, slab_ok, dma_ok), {I2S_DIR_TX})

\* stream->stream_start(stream, dev)
stream_start(m, d, slab_ok, dma_ok) ==
    IF d = I2S_DIR_RX THEN rx_stream_start(m, slab_ok, dma_ok)
    ELSE tx_stream_start(m, slab_ok, dma_ok)

\* full_duplex_stream_start after rx_stream_start_dma, whose result is r
full_duplex_stream_start_tx(r, slab_ok, tx_dma_ok) ==
    IF r.ret < 0 THEN r
    ELSE ll_i2s_enable(tx_stream_start_dma(r.m, TRUE, slab_ok, tx_dma_ok), Dirs)

full_duplex_stream_start(m, slab_ok, rx_dma_ok, tx_dma_ok) ==
    full_duplex_stream_start_tx(
        rx_stream_start_dma(m, TRUE, slab_ok, rx_dma_ok), slab_ok, tx_dma_ok)

(* ------------------------ interrupt-context code ------------------------ *)
\* __ASSERT_NO_MSG(cond): a failed assertion is recorded; with assertions
\* compiled out the code goes on.
assert_no_msg(m, cond) == IF cond THEN m ELSE [m EXCEPT !.ub = @ \cup {"assert"}]

\* the rx_disable: label of dma_rx_callback
rx_disable(m) ==
    IF IsFullDuplexMode(m)
    THEN full_duplex_stream_disable(
             [m EXCEPT !.state[I2S_DIR_TX] = I2S_STATE_ERROR])
    ELSE rx_stream_disable(m)

\* the tx_disable: label of dma_tx_callback
tx_disable(m) ==
    IF IsFullDuplexMode(m)
    THEN full_duplex_stream_disable(
             [m EXCEPT !.state[I2S_DIR_RX] = I2S_STATE_ERROR])
    ELSE tx_stream_disable(m)

\* dma_rx_callback: the stop request test that ends it; path names the way
\* the handler came here
dma_rx_callback_stop(m, path) ==
    IF m.state[I2S_DIR_RX] = I2S_STATE_STOPPING
    THEN [path |-> "stopping",
          m |-> rx_disable([m EXCEPT !.state[I2S_DIR_RX] = I2S_STATE_READY])]
    ELSE [path |-> path, m |-> m]

\* dma_rx_callback after its queue_put, keeping the block it could not queue
dma_rx_callback_queued_keep(m, ret, mblk_tmp) ==
    IF RX_OVERRUN_DROP /\ ret = -ENOMEM
    THEN dma_rx_callback_stop(m, "overrun_drop")
    ELSE IF ret < 0
    THEN [path |-> "queue_full",
          m |-> rx_disable([m EXCEPT !.state[I2S_DIR_RX] = I2S_STATE_ERROR])]
    ELSE dma_rx_callback_stop(k_sem_give(m, I2S_DIR_RX), "ok")

\* dma_rx_callback after its queue_put, giving the semaphore for a block it
\* could not queue
dma_rx_callback_queued_give(m, ret, mblk_tmp) ==
    IF RX_OVERRUN_DROP /\ ret = -ENOMEM
    THEN dma_rx_callback_stop(k_mem_slab_free(m, mblk_tmp), "overrun_drop")
    ELSE IF ret < 0
    THEN [path |-> "queue_full",
          m |-> rx_disable(k_sem_give([m EXCEPT !.state[I2S_DIR_RX] =
                                                     I2S_STATE_ERROR],
                                      I2S_DIR_RX))]
    ELSE dma_rx_callback_stop(k_sem_give(m, I2S_DIR_RX), "ok")

\* dma_rx_callback after its queue_put, which returned ret
dma_rx_callback_queued(m, ret, mblk_tmp) ==
    IF RX_OVERRUN_DROP /\ ret = -ENOMEM
    THEN dma_rx_callback_stop(k_mem_slab_free(m, mblk_tmp), "overrun_drop")
    ELSE IF ret < 0
    THEN [path |-> "queue_full",
          m |-> rx_disable([m EXCEPT !.state[I2S_DIR_RX] = I2S_STATE_ERROR])]
    ELSE dma_rx_callback_stop(k_sem_give(m, I2S_DIR_RX), "ok")

\* dma_rx_callback queueing the block it has just armed the channel with
\* instead of the one that was filled
dma_rx_callback_put_armed(m, mblk_tmp) ==
    dma_rx_callback_queued(
        [m EXCEPT !.mem_block_queue[I2S_DIR_RX] =
             queue_put(m.mem_block_queue[I2S_DIR_RX], m.mem_block[I2S_DIR_RX],
                       m.cfg[I2S_DIR_RX]).rb,
                  !.mem_block[I2S_DIR_RX] = mblk_tmp,
                  !.dma_addr[I2S_DIR_RX] = mblk_tmp],
        queue_put(m.mem_block_queue[I2S_DIR_RX], m.mem_block[I2S_DIR_RX],
                  m.cfg[I2S_DIR_RX]).ret,
        m.mem_block[I2S_DIR_RX])

\* dma_rx_callback: queue_put(&stream->mem_block_queue, mblk_tmp, block_size)
dma_rx_callback_put(m, mblk_tmp) ==
    dma_rx_callback_queued(
        [m EXCEPT !.mem_block_queue[I2S_DIR_RX] =
             queue_put(m.mem_block_queue[I2S_DIR_RX], mblk_tmp,
                       m.cfg[I2S_DIR_RX]).rb],
        queue_put(m.mem_block_queue[I2S_DIR_RX], mblk_tmp,
                  m.cfg[I2S_DIR_RX]).ret,
        mblk_tmp)

\* dma_rx_callback after its k_mem_slab_alloc, taking a failed allocation
\* for an overrun when overruns are dropped: the block just filled is armed
\* again and the stream goes on
dma_rx_callback_alloc_drop(a, mblk_tmp, reload_ok) ==
    IF a.ret < 0 /\ RX_OVERRUN_DROP
    THEN [path |-> "alloc",
          m |-> dma_arm([a.m EXCEPT !.mem_block[I2S_DIR_RX] = mblk_tmp],
                        I2S_DIR_RX, mblk_tmp, TRUE)]
    ELSE IF a.ret < 0
    THEN [path |-> "alloc",
          m |-> rx_disable([a.m EXCEPT
                              !.mem_block[I2S_DIR_RX] = a.mem,
                              !.state[I2S_DIR_RX] = I2S_STATE_ERROR])]
    ELSE IF ~reload_ok
    THEN [path |-> "reload",
          m |-> rx_disable(dma_arm([a.m EXCEPT !.mem_block[I2S_DIR_RX] = a.mem],
                                   I2S_DIR_RX, a.mem, FALSE))]
    ELSE dma_rx_callback_put(
             dma_arm([a.m EXCEPT !.mem_block[I2S_DIR_RX] = a.mem],
                     I2S_DIR_RX, a.mem, TRUE),
             mblk_tmp)

\* dma_rx_callback after its k_mem_slab_alloc, handing the completed block
\* to the reader before it reloads the channel: when the reload fails the
\* block is queued and the semaphore given all the same
dma_rx_callback_alloc_put_first(a, mblk_tmp, reload_ok) ==
    IF a.ret < 0
    THEN [path |-> "alloc",
          m |-> rx_disable([a.m EXCEPT
                              !.mem_block[I2S_DIR_RX] = a.mem,
                              !.state[I2S_DIR_RX] = I2S_STATE_ERROR])]
    ELSE IF ~reload_ok
    THEN [path |-> "reload",
          m |-> rx_disable(
                    k_sem_give(
                        [a.m EXCEPT
                           !.mem_block[I2S_DIR_RX] = a.mem,
                           !.mem_block_queue[I2S_DIR_RX] =
                               queue_put(a.m.mem_block_queue[I2S_DIR_RX],
                                         mblk_tmp, a.m.cfg[I2S_DIR_RX]).rb],
                        I2S_DIR_RX))]
    ELSE dma_rx_callback_put(
             dma_arm([a.m EXCEPT !.mem_block[I2S_DIR_RX] = a.mem],
                     I2S_DIR_RX, a.mem, TRUE),
             mblk_tmp)

\* dma_rx_callback after its k_mem_slab_alloc, whose result is a
dma_rx_callback_alloc(a, mblk_tmp, reload_ok) ==
    IF a.ret < 0
    THEN [path |-> "alloc",
          m |-> rx_disable([a.m EXCEPT
                              !.mem_block[I2S_DIR_RX] = a.mem,
                              !.state[I2S_DIR_RX] = I2S_STATE_ERROR])]
    ELSE IF ~reload_ok
    THEN [path |-> "reload",
          m |-> rx_disable(dma_arm([a.m EXCEPT !.mem_block[I2S_DIR_RX] = a.mem],
                                   I2S_DIR_RX, a.mem, FALSE))]
    ELSE dma_rx_callback_put(
             dma_arm([a.m EXCEPT !.mem_block[I2S_DIR_RX] = a.mem],
                     I2S_DIR_RX, a.mem, TRUE),
             mblk_tmp)

\* dma_rx_callback after the assertion
dma_rx_callback_block(m, slab_ok, reload_ok) ==
    IF m.state[I2S_DIR_RX] = I2S_STATE_ERROR
    THEN [path |-> "state_error", m |-> rx_disable(m)]
    ELSE dma_rx_callback_alloc(k_mem_slab_alloc(m, I2S_DIR_RX, slab_ok),
                               m.mem_block[I2S_DIR_RX], reload_ok)

\* dma_rx_callback(dma_dev, arg, channel, status); slab_ok is whether the
\* slab has a block to give and reload_ok whether reload_dma() succeeds.  The
\* result names the path taken through the handler.
dma_rx_callback(m, status, slab_ok, reload_ok) ==
    IF status # 0
    THEN [path |-> "status",
          m |-> rx_disable([m EXCEPT !.state[I2S_DIR_RX] = I2S_STATE_ERROR])]
    ELSE dma_rx_callback_block(
             assert_no_msg(m, m.mem_block[I2S_DIR_RX] # NULL),
             slab_ok, reload_ok)

\* dma_tx_callback from its k_sem_give on; path names the way the handler
\* came here
dma_tx_callback_reload(m, reload_ok, path) ==
    IF ~reload_ok
    THEN [path |-> "reload",
          m |-> tx_disable(dma_arm(tx_sem_give(m), I2S_DIR_TX,
                                   m.mem_block[I2S_DIR_TX], FALSE))]
    ELSE [path |-> path,
          m |-> dma_arm(tx_sem_give(m), I2S_DIR_TX,
                        m.mem_block[I2S_DIR_TX], TRUE)]

\* dma_tx_callback after its queue_get, taking every empty queue for the end
\* of a drain
dma_tx_callback_next_drained(m, g, reload_ok) ==
    IF TX_UNDERRUN_LAST_REPEAT /\ g.ret = -ENOMEM
    THEN dma_tx_callback_reload(
             [m EXCEPT !.mem_block_queue[I2S_DIR_TX] = g.rb,
                       !.mem_block[I2S_DIR_TX] = m.last_mem_block,
                       !.mem_block_size[I2S_DIR_TX] = m.last_mem_block_size,
                       !.tx_underrun = TRUE],
             reload_ok, "repeat")
    ELSE IF g.ret < 0
    THEN [path |-> "stopping",
          m |-> tx_disable(
                    [m EXCEPT !.mem_block_queue[I2S_DIR_TX] = g.rb,
                              !.mem_block[I2S_DIR_TX] = g.mem_block,
                              !.mem_block_size[I2S_DIR_TX] = g.size,
                              !.state[I2S_DIR_TX] = I2S_STATE_READY])]
    ELSE dma_tx_callback_reload(
             [m EXCEPT !.mem_block_queue[I2S_DIR_TX] = g.rb,
                       !.mem_block[I2S_DIR_TX] = g.mem_block,
                       !.mem_block_size[I2S_DIR_TX] = g.size,
                       !.tx_underrun =
                           IF TX_UNDERRUN_LAST_REPEAT THEN FALSE ELSE @],
             reload_ok, "ok")

\* dma_tx_callback after its queue_get, whose result is g
dma_tx_callback_next(m, g, reload_ok) ==
    IF TX_UNDERRUN_LAST_REPEAT /\ g.ret = -ENOMEM
    THEN dma_tx_callback_reload(
             [m EXCEPT !.mem_block_queue[I2S_DIR_TX] = g.rb,
                       !.mem_block[I2S_DIR_TX] = m.last_mem_block,
                       !.mem_block_size[I2S_DIR_TX] = m.last_mem_block_size,
                       !.tx_underrun = TRUE],
             reload_ok, "repeat")
    ELSE IF g.ret < 0
    THEN IF m.state[I2S_DIR_TX] = I2S_STATE_STOPPING
         THEN [path |-> "stopping",
               m |-> tx_disable(
                         [m EXCEPT !.mem_block_queue[I2S_DIR_TX] = g.rb,
                                   !.mem_block[I2S_DIR_TX] = g.mem_block,
                                   !.mem_block_size[I2S_DIR_TX] = g.size,
                                   !.state[I2S_DIR_TX] = I2S_STATE_READY])]
         ELSE [path |-> "underrun",
               m |-> tx_disable(
                         [m EXCEPT !.mem_block_queue[I2S_DIR_TX] = g.rb,
                                   !.mem_block[I2S_DIR_TX] = g.mem_block,
                                   !.mem_block_size[I2S_DIR_TX] = g.size,
                                   !.state[I2S_DIR_TX] = I2S_STATE_ERROR])]
    ELSE dma_tx_callback_reload(
             [m EXCEPT !.mem_block_queue[I2S_DIR_TX] = g.rb,
                       !.mem_block[I2S_DIR_TX] = g.mem_block,
                       !.mem_block_size[I2S_DIR_TX] = g.size,
                       !.tx_underrun =
                           IF TX_UNDERRUN_LAST_REPEAT THEN FALSE ELSE @],
             reload_ok, "ok")

\* dma_tx_callback after the sent block is released
dma_tx_callback_sent(m, reload_ok) ==
    IF m.state[I2S_DIR_TX] = I2S_STATE_ERROR
    THEN [path |-> "state_error", m |-> tx_disable(m)]
    ELSE IF m.last_block[I2S_DIR_TX]
    THEN [path |-> "last_block",
          m |-> tx_disable([m EXCEPT !.state[I2S_DIR_TX] = I2S_STATE_READY])]
    ELSE dma_tx_callback_next(
             m,
             queue_get(m.mem_block_queue[I2S_DIR_TX], m.mem_block[I2S_DIR_TX],
                       m.mem_block_size[I2S_DIR_TX]),
             reload_ok)

\* dma_tx_callback, all block data sent: the block is freed, or kept as the
\* last block in place of the one kept so far
dma_tx_callback_release(m) ==
    IF TX_UNDERRUN_LAST_REPEAT
    THEN IF m.tx_underrun = FALSE
         THEN [k_mem_slab_free(m, m.last_mem_block) EXCEPT
                  !.last_mem_block = m.mem_block[I2S_DIR_TX],
                  !.last_mem_block_size = m.mem_block_size[I2S_DIR_TX],
                  !.mem_block[I2S_DIR_TX] = NULL,
                  !.mem_block_size[I2S_DIR_TX] = 0]
         ELSE [m EXCEPT !.mem_block[I2S_DIR_TX] = NULL,
                        !.mem_block_size[I2S_DIR_TX] = 0]
    ELSE [k_mem_slab_free(m, m.mem_block[I2S_DIR_TX]) EXCEPT
             !.mem_block[I2S_DIR_TX] = NULL,
             !.mem_block_size[I2S_DIR_TX] = 0]

\* dma_tx_callback(dma_dev, arg, channel, status); reload_ok is whether
\* reload_dma() succeeds
dma_tx_callback(m, status, reload_ok) ==
    IF status # 0
    THEN [path |-> "status",
          m |-> tx_disable([m EXCEPT !.state[I2S_DIR_TX] = I2S_STATE_ERROR])]
    ELSE dma_tx_callback_sent(
             dma_tx_callback_release(
                 assert_no_msg(m, m.mem_block[I2S_DIR_TX] # NULL)),
             reload_ok)

\* i2s_stm32_isr(dev): the peripheral's error interrupt
i2s_stm32_isr(m) ==
    IF IsFullDuplexMode(m)
    THEN [m EXCEPT !.state = [d \in Dirs |-> I2S_STATE_ERROR]]
    ELSE [m EXCEPT !.state[I2S_DIR_RX] = I2S_STATE_ERROR]

(* ------------------------- thread-context code -------------------------- *)
NoCall == [op |-> "none", dir |-> "none", cmd |-> "none", arg |-> NULL]

StreamsOf(dir) == IF dir = I2S_DIR_BOTH THEN Dirs ELSE {dir}

\* the streams whose last accepted trigger among START, STOP, DRAIN and DROP
\* is a STOP, DRAIN or DROP that has returned 0, after the step described by
\* the arguments
StoppedAfter(op, dir, cmd, done, ret, path) ==
    IF op = "trigger" /\ cmd = I2S_TRIGGER_START
       /\ ~(done /\ ret < 0 /\ path = "check")
    THEN ev.stopped \ StreamsOf(dir)
    ELSE IF op = "trigger" /\ done /\ ret = 0
            /\ cmd \in {I2S_TRIGGER_STOP, I2S_TRIGGER_DRAIN, I2S_TRIGGER_DROP}
    THEN ev.stopped \cup StreamsOf(dir)
    ELSE ev.stopped

\* the record kept in ev: the function that made the step, its direction and
\* command, whether it returned in this step and what, the path it took, the
\* undefined behaviour it met, the block a read returned, the states the
\* two streams had when the step began, and the streams stopped by a trigger
\* and not started since
Ev(op, dir, cmd, done, ret, path, ub) ==
    [op |-> op, dir |-> dir, cmd |-> cmd, done |-> done, ret |-> ret,
     path |-> path, ub |-> ub, block |-> NULL, pre |-> state,
     stopped |-> StoppedAfter(op, dir, cmd, done, ret, path)]

\* a call returns ret: the thread is idle again
Return(op, dir, cmd, ret, path, m) ==
    /\ pc' = "idle"
    /\ call' = NoCall
    /\ ev' = Ev(op, dir, cmd, TRUE, ret, path, m.ub)
\* a call goes on at label next
Goto(op, dir, cmd, arg, next, path, m) ==
    /\ pc' = next
    /\ call' = [op |-> op, dir |-> dir, cmd |-> cmd, arg |-> arg]
    /\ ev' = Ev(op, dir, cmd, FALSE, 0, path, m.ub)

\* a call is made / an interrupt is taken, while the bounds allow: n_calls
\* and n_irqs are the calls and the interrupts still to come
BeginCall == n_calls > 0 /\ n_calls' = n_calls - 1 /\ UNCHANGED n_irqs
TakeIrq == n_irqs > 0 /\ n_irqs' = n_irqs - 1 /\ UNCHANGED n_calls

\* the state tests of i2s_stm32_trigger_half_duplex without the one of START
trigger_half_duplex_check_no_start_test(st, cmd) ==
    CASE cmd = I2S_TRIGGER_START -> 0
      [] cmd = I2S_TRIGGER_STOP ->
            IF st # I2S_STATE_RUNNING THEN -EIO ELSE 0
      [] cmd = I2S_TRIGGER_DRAIN ->
            IF st # I2S_STATE_RUNNING THEN -EIO ELSE 0
      [] cmd = I2S_TRIGGER_DROP ->
            IF st = I2S_STATE_NOT_READY THEN -EIO ELSE 0
      [] cmd = I2S_TRIGGER_PREPARE ->
            IF st # I2S_STATE_ERROR THEN -EIO ELSE 0

\* the state test that opens each case of i2s_stm32_trigger_half_duplex
trigger_half_duplex_check(st, cmd) ==
    CASE cmd = I2S_TRIGGER_START ->
            IF st # I2S_STATE_READY THEN -EIO ELSE 0
      [] cmd = I2S_TRIGGER_STOP ->
            IF st # I2S_STATE_RUNNING THEN -EIO ELSE 0
      [] cmd = I2S_TRIGGER_DRAIN ->
            IF st # I2S_STATE_RUNNING THEN -EIO ELSE 0
      [] cmd = I2S_TRIGGER_DROP ->
            IF st = I2S_STATE_NOT_READY THEN -EIO ELSE 0
      [] cmd = I2S_TRIGGER_PREPARE ->
            IF st # I2S_STATE_ERROR THEN -EIO ELSE 0

\* the state tests that open each case of i2s_stm32_trigger_full_duplex
trigger_full_duplex_check(rxst, txst, cmd) ==
    CASE cmd = I2S_TRIGGER_START ->
            IF rxst # I2S_STATE_READY \/ txst # I2S_STATE_READY
            THEN -EIO ELSE 0
      [] cmd = I2S_TRIGGER_STOP ->
            IF rxst # I2S_STATE_RUNNING \/ txst # I2S_STATE_RUNNING
            THEN -EIO ELSE 0
      [] cmd = I2S_TRIGGER_DRAIN ->
            IF rxst # I2S_STATE_RUNNING \/ txst # I2S_STATE_RUNNING
            THEN -EIO ELSE 0
      [] cmd = I2S_TRIGGER_DROP ->
            IF rxst # I2S_STATE_NOT_READY \/ txst # I2S_STATE_NOT_READY
            THEN -EIO ELSE 0
      [] cmd = I2S_TRIGGER_PREPARE ->
            IF rxst # I2S_STATE_ERROR \/ txst # I2S_STATE_ERROR
            THEN -EIO ELSE 0

\* whether the failing state test of a full-duplex case returns with the
\* interrupt lock it took still held (STOP and DRAIN take it before the test)
full_duplex_check_holds_lock(cmd) ==
    cmd \in {I2S_TRIGGER_STOP, I2S_TRIGGER_DRAIN}

\* STOP, DRAIN and DROP after the state test, without the queue_drop
half_duplex_disable_no_drop(m, d, cmd) ==
    [stream_disable(m, d) EXCEPT
        !.state[d] = I2S_STATE_READY,
        !.last_block[d] = IF cmd = I2S_TRIGGER_STOP THEN TRUE ELSE @]

\* what follows the state test if DRAIN only asked the completion handler to
\* stop the stream once its queue is empty
half_duplex_disable_drain_deferred(m, d, cmd) ==
    IF cmd = I2S_TRIGGER_DRAIN
    THEN [m EXCEPT !.state[d] = I2S_STATE_STOPPING]
    ELSE [queue_drop(stream_disable(m, d), d) EXCEPT
            !.state[d] = I2S_STATE_READY,
            !.last_block[d] = IF cmd = I2S_TRIGGER_STOP THEN TRUE ELSE @]

\* what follows the state test of STOP, DRAIN and DROP
half_duplex_disable_and_drop(m, d, cmd) ==
    [queue_drop(stream_disable(m, d), d) EXCEPT
        !.state[d] = I2S_STATE_READY,
        !.last_block[d] = IF cmd = I2S_TRIGGER_STOP THEN TRUE ELSE @]

full_duplex_disable_and_drop(m, cmd) ==
    [full_duplex_queue_drop(full_duplex_stream_disable(m)) EXCEPT
        !.state = [d \in Dirs |-> I2S_STATE_READY],
        !.last_block = IF cmd = I2S_TRIGGER_STOP
                       THEN [d \in Dirs |-> TRUE] ELSE @]

disable_and_drop(m, dir, cmd) ==
    IF dir = I2S_DIR_BOTH THEN full_duplex_disable_and_drop(m, cmd)
    ELSE half_duplex_disable_and_drop(m, dir, cmd)

trigger_check(m, dir, cmd) ==
    IF dir = I2S_DIR_BOTH
    THEN trigger_full_duplex_check(m.state[I2S_DIR_RX], m.state[I2S_DIR_TX], cmd)
    ELSE trigger_half_duplex_check(m.state[dir], cmd)

\* i2s_stm32_trigger(dev, dir, cmd), up to the first point where an interrupt
\* can be taken after the state test.  DRAIN runs to its end under irq_lock.
Trigger(dir, cmd) ==
    LET chk == trigger_check(M, dir, cmd)
        ma  == IF cmd = I2S_TRIGGER_START
               THEN assert_no_msg(M, \A d \in StreamsOf(dir) : mem_block[d] = NULL)
               ELSE M
        leak == [M EXCEPT !.irq_locked =
                    @ \/ (dir = I2S_DIR_BOTH /\ full_duplex_check_holds_lock(cmd))]
    IN
    /\ pc = "idle"
    /\ BeginCall
    /\ UNCHANGED <<opt_vars, scn_vars>>
    /\ IF chk < 0
       THEN Commit(leak) /\ Return("trigger", dir, cmd, chk, "check", leak)
       ELSE IF cmd = I2S_TRIGGER_DRAIN
       THEN LET m1 == disable_and_drop(M, dir, cmd)
            IN  Commit(m1) /\ Return("trigger", dir, cmd, 0, "drain", m1)
       ELSE /\ Commit(M)
            /\ Goto("trigger", dir, cmd, NULL,
                    CASE cmd = I2S_TRIGGER_START -> "start_hw"
                      [] cmd = I2S_TRIGGER_STOP -> "stop_act"
                      [] cmd = I2S_TRIGGER_DROP -> "drop_act"
                      [] cmd = I2S_TRIGGER_PREPARE -> "prep_state",
                    "check", ma)

\* START: stream->stream_start() / full_duplex_stream_start()
TriggerStartHw(slab_ok, rx_dma_ok, tx_dma_ok) ==
    LET r == IF call.dir = I2S_DIR_BOTH
             THEN full_duplex_stream_start(M, slab_ok, rx_dma_ok, tx_dma_ok)
             ELSE stream_start(M, call.dir, slab_ok,
                               IF call.dir = I2S_DIR_RX THEN rx_dma_ok
                               ELSE tx_dma_ok)
    IN
    /\ pc = "start_hw"
    \* one choice of the answer of a channel that is not started
    /\ call.dir = I2S_DIR_RX => tx_dma_ok
    /\ call.dir = I2S_DIR_TX => rx_dma_ok
    /\ UNCHANGED <<opt_vars, bud_vars, scn_vars>>
    /\ Commit(r.m)
    /\ IF r.ret < 0
       THEN Return("trigger", call.dir, call.cmd, r.ret, "start_hw", r.m)
       ELSE Goto("trigger", call.dir, call.cmd, NULL, "start_fin", "start_hw", r.m)

\* START ending without the stream->last_block = false of line 1215
TriggerStartFinishKeepsLastBlock ==
    LET m1 == [M EXCEPT
                 !.state = [d \in Dirs |-> IF d \in StreamsOf(call.dir)
                                           THEN I2S_STATE_RUNNING ELSE @[d]]]
    IN
    /\ pc = "start_fin"
    /\ UNCHANGED <<opt_vars, bud_vars, scn_vars>>
    /\ Commit(m1)
    /\ Return("trigger", call.dir, call.cmd, 0, "start_fin", m1)

\* START: stream->state = I2S_STATE_RUNNING; stream->last_block = false;
TriggerStartFinish ==
    LET m1 == [M EXCEPT
                 !.state = [d \in Dirs |-> IF d \in StreamsOf(call.dir)
                                           THEN I2S_STATE_RUNNING ELSE @[d]],
                 !.last_block = [d \in Dirs |-> IF d \in StreamsOf(call.dir)
                                                THEN FALSE ELSE @[d]]]
    IN
    /\ pc = "start_fin"
    /\ UNCHANGED <<opt_vars, bud_vars, scn_vars>>
    /\ Commit(m1)
    /\ Return("trigger", call.dir, call.cmd, 0, "start_fin", m1)

\* STOP and DROP after the state test
TriggerDisable ==
    LET m1 == disable_and_drop(M, call.dir, call.cmd)
    IN
    /\ pc \in {"stop_act", "drop_act"}
    /\ UNCHANGED <<opt_vars, bud_vars, scn_vars>>
    /\ Commit(m1)
    /\ Return("trigger", call.dir, call.cmd, 0, pc, m1)

\* PREPARE: stream->state = I2S_STATE_READY (both streams for I2S_DIR_BOTH)
TriggerPrepareState ==
    LET m1 == [M EXCEPT
                 !.state = [d \in Dirs |-> IF d \in StreamsOf(call.dir)
                                           THEN I2S_STATE_READY ELSE @[d]]]
    IN
    /\ pc = "prep_state"
    /\ UNCHANGED <<opt_vars, bud_vars, scn_vars>>
    /\ Commit(m1)
    /\ Goto("trigger", call.dir, call.cmd, NULL,
            IF call.dir = I2S_DIR_TX THEN "prep_tx_drain" ELSE "prep_rx_drain",
            "prep_state", m1)

\* PREPARE: the loop of rx_queue_drop
TriggerPrepareRxDrain ==
    LET r == queue_drain(M, I2S_DIR_RX, 0)
    IN
    /\ pc = "prep_rx_drain"
    /\ UNCHANGED <<opt_vars, bud_vars, scn_vars>>
    /\ Commit(r.m)
    /\ Goto("trigger", call.dir, call.cmd, NULL, "prep_rx_reset",
            "prep_rx_drain", r.m)

\* PREPARE: the k_sem_reset that ends rx_queue_drop
TriggerPrepareRxReset ==
    LET m1 == k_sem_reset(M, I2S_DIR_RX)
    IN
    /\ pc = "prep_rx_reset"
    /\ UNCHANGED <<opt_vars, bud_vars, scn_vars>>
    /\ Commit(m1)
    /\ IF call.dir = I2S_DIR_BOTH
       THEN Goto("trigger", call.dir, call.cmd, NULL, "prep_tx_drain",
                 "prep_rx_reset", m1)
       ELSE Return("trigger", call.dir, call.cmd, 0, "prep_rx_reset", m1)

\* PREPARE: the loop of tx_queue_drop; n is kept for the k_sem_give loop
TriggerPrepareTxDrain ==
    LET r == queue_drain(M, I2S_DIR_TX, 0)
    IN
    /\ pc = "prep_tx_drain"
    /\ UNCHANGED <<opt_vars, bud_vars, scn_vars>>
    /\ Commit(r.m)
    /\ Goto("trigger", call.dir, call.cmd, r.n, "prep_tx_tail",
            "prep_tx_drain", r.m)

\* PREPARE: the rest of tx_queue_drop
TriggerPrepareTxTail ==
    LET m1 == tx_queue_drop_tail(M, call.arg)
    IN
    /\ pc = "prep_tx_tail"
    /\ UNCHANGED <<opt_vars, bud_vars, scn_vars>>
    /\ Commit(m1)
    /\ Return("trigger", call.dir, call.cmd, 0, "prep_tx_tail", m1)

\* i2s_stm32_configure_stream(stream, i2s_cfg): [ret, m]
i2s_stm32_configure_stream(m, d, frame_clk_freq) ==
    IF m.state[d] # I2S_STATE_NOT_READY /\ m.state[d] # I2S_STATE_READY
    THEN [ret |-> -EINVAL, m |-> m]
    ELSE IF frame_clk_freq = 0
    THEN [ret |-> 0,
          m |-> [queue_drop(m, d) EXCEPT !.cfg[d] = 0,
                                         !.state[d] = I2S_STATE_NOT_READY]]
    ELSE [ret |-> 0,
          m |-> IF d = I2S_DIR_TX
                THEN [m EXCEPT !.cfg[d] = BLOCK_SIZE,
                               !.tx_underrun = FALSE,
                               !.last_mem_block = NULL,
                               !.last_mem_block_size = 0,
                               !.mem_block_size[d] = 0]
                ELSE [m EXCEPT !.cfg[d] = BLOCK_SIZE,
                               !.mem_block_size[d] = 0]]

\* the first part of i2s_stm32_configure: the streams of dir, RX before TX
configure_streams(m, dir, frame_clk_freq) ==
    LET r == i2s_stm32_configure_stream(m, I2S_DIR_RX, frame_clk_freq)
    IN  IF dir = I2S_DIR_RX THEN r
        ELSE IF dir = I2S_DIR_TX
        THEN i2s_stm32_configure_stream(m, I2S_DIR_TX, frame_clk_freq)
        ELSE IF r.ret # 0 THEN r
        ELSE i2s_stm32_configure_stream(r.m, I2S_DIR_TX, frame_clk_freq)

\* i2s_stm32_configure(dev, dir, i2s_cfg); supported says whether the word
\* size and the data format of i2s_cfg are ones the driver knows.  The call
\* keeps the stream states it found (before) and those the calls of
\* i2s_stm32_configure_stream left (after).
Configure(dir, frame_clk_freq, supported) ==
    LET r == configure_streams(M, dir, frame_clk_freq)
    IN
    /\ pc = "idle"
    /\ BeginCall
    /\ UNCHANGED <<opt_vars, scn_vars>>
    /\ Commit(r.m)
    /\ IF r.ret # 0
       THEN Return("configure", dir, "none", r.ret, "stream", r.m)
       ELSE Goto("configure", dir, "none",
                 [frame_clk_freq |-> frame_clk_freq, supported |-> supported,
                  before |-> state, after |-> r.m.state],
                 "cfg_fin", "stream", r.m)

\* the rest of i2s_stm32_configure: clock, word size, format, then READY.
\* A bit clock of 0 makes i2s_stm32_set_clock divide by zero: the division
\* yields some number and the call goes on, or it traps.
configure_finish(m, dir, frame_clk_freq, supported) ==
    LET m1 == IF frame_clk_freq = 0
              THEN [m EXCEPT !.ub = @ \cup {"div_zero"}] ELSE m
    IN  IF ~supported THEN [ret |-> -EINVAL, m |-> m1]
        ELSE [ret |-> 0,
              m |-> [m1 EXCEPT
                       !.state = [d \in Dirs |-> IF d \in StreamsOf(dir)
                                                 THEN I2S_STATE_READY
                                                 ELSE @[d]]]]

\* the division by zero traps: the fatal error handler locks interrupts and
\* halts, and the call never returns
configure_trap(m) ==
    [m EXCEPT !.ub = @ \cup {"div_zero"}, !.irq_locked = TRUE]

ConfigureFinish(trap) ==
    LET r == configure_finish(M, call.dir, call.arg.frame_clk_freq,
                              call.arg.supported)
    IN
    /\ pc = "cfg_fin"
    /\ trap => call.arg.frame_clk_freq = 0
    /\ UNCHANGED <<opt_vars, bud_vars, scn_vars>>
    /\ IF trap
       THEN /\ Commit(configure_trap(M))
            /\ Goto("configure", call.dir, "none", call.arg, "fault", "trap",
                    configure_trap(M))
       ELSE /\ Commit(r.m)
            /\ Return("configure", call.dir, "none", r.ret, "finish", r.m)

\* i2s_stm32_read(dev, &mem_block, &size): the state tests
Read ==
    /\ pc = "idle"
    /\ BeginCall
    /\ UNCHANGED <<opt_vars, scn_vars>>
    /\ Commit(M)
    /\ IF state[I2S_DIR_RX] = I2S_STATE_NOT_READY
          \/ state[I2S_DIR_RX] = I2S_STATE_ERROR
       THEN Return("read", I2S_DIR_RX, "none", -EIO, "check", M)
       ELSE Goto("read", I2S_DIR_RX, "none", NULL, "rd_take", "check", M)

\* a read whose wait times out puts the stream in ERROR
ReadTakeTimeoutIsError ==
    /\ pc = "rd_take"
    /\ UNCHANGED <<opt_vars, bud_vars, scn_vars>>
    /\ IF sem[I2S_DIR_RX] > 0
       THEN LET m1 == [M EXCEPT !.sem[I2S_DIR_RX] = @ - 1]
            IN  /\ Commit(m1)
                /\ Goto("read", I2S_DIR_RX, "none", NULL, "rd_get", "take", m1)
       ELSE LET m1 == [M EXCEPT !.state[I2S_DIR_RX] = I2S_STATE_ERROR]
            IN  /\ Commit(m1)
                /\ Return("read", I2S_DIR_RX, "none", -EAGAIN, "timeout", m1)

\* k_sem_take(&rx.sem, timeout): taken, or the timeout expires
ReadTake ==
    /\ pc = "rd_take"
    /\ UNCHANGED <<opt_vars, bud_vars, scn_vars>>
    /\ IF sem[I2S_DIR_RX] > 0
       THEN LET m1 == [M EXCEPT !.sem[I2S_DIR_RX] = @ - 1]
            IN  /\ Commit(m1)
                /\ Goto("read", I2S_DIR_RX, "none", NULL, "rd_get", "take", m1)
       ELSE /\ Commit(M)
            /\ Return("read", I2S_DIR_RX, "none", -EAGAIN, "timeout", M)

\* queue_get(&rx.mem_block_queue, mem_block, size): the block is the
\* caller's, who gives it back to the slab once it has used it
ReadGetStep ==
    LET g == queue_get(mem_block_queue[I2S_DIR_RX], NULL, 0)
        m1 == [M EXCEPT !.mem_block_queue[I2S_DIR_RX] = g.rb,
                        !.slab_free = IF g.ret = 0 /\ g.mem_block # NULL
                                      THEN @ \cup {g.mem_block} ELSE @]
    IN
    /\ pc = "rd_get"
    /\ UNCHANGED <<opt_vars, bud_vars>>
    /\ Commit(m1)
    /\ pc' = "idle"
    /\ call' = NoCall
    /\ ev' = [Ev("read", I2S_DIR_RX, "none", TRUE, g.ret, "get", {})
                 EXCEPT !.block = g.mem_block]

ReadGet == ReadGetStep /\ UNCHANGED scn_vars

\* i2s_stm32_write(dev, mem_block, size): the state test.  The application
\* writes a block it has just taken from the TX slab, and gives it back to the
\* slab when the write fails.
Write ==
    LET b == MinOf(TxSlab \cap slab_free)
        m1 == [M EXCEPT !.slab_free = @ \ {b}]
    IN
    /\ pc = "idle"
    /\ TxSlab \cap slab_free # {}
    /\ BeginCall
    /\ UNCHANGED <<opt_vars, scn_vars>>
    /\ IF state[I2S_DIR_TX] # I2S_STATE_RUNNING
          /\ state[I2S_DIR_TX] # I2S_STATE_READY
       THEN Commit(M) /\ Return("write", I2S_DIR_TX, "none", -EIO, "check", M)
       ELSE Commit(m1)
            /\ Goto("write", I2S_DIR_TX, "none", b, "wr_take", "check", m1)

\* a write that goes on to queue_put without having taken the semaphore
WriteTakeNothing ==
    /\ pc = "wr_take"
    /\ UNCHANGED <<opt_vars, bud_vars, scn_vars>>
    /\ Commit(M)
    /\ Goto("write", I2S_DIR_TX, "none", call.arg, "wr_put", "take", M)

\* k_sem_take(&tx.sem, timeout): taken, or the timeout expires
WriteTake ==
    /\ pc = "wr_take"
    /\ UNCHANGED <<opt_vars, bud_vars, scn_vars>>
    /\ IF sem[I2S_DIR_TX] > 0
       THEN LET m1 == [M EXCEPT !.sem[I2S_DIR_TX] = @ - 1]
            IN  /\ Commit(m1)
                /\ Goto("write", I2S_DIR_TX, "none", call.arg, "wr_put", "take", m1)
       ELSE LET m1 == [M EXCEPT !.slab_free = @ \cup {call.arg}]
            IN  /\ Commit(m1)
                /\ Return("write", I2S_DIR_TX, "none", -EAGAIN, "timeout", m1)

\* queue_put(&tx.mem_block_queue, mem_block, size)
WritePutStep ==
    LET p == queue_put(mem_block_queue[I2S_DIR_TX], call.arg, BLOCK_SIZE)
        m1 == [M EXCEPT !.mem_block_queue[I2S_DIR_TX] = p.rb,
                        !.slab_free = IF p.ret < 0 THEN @ \cup {call.arg} ELSE @]
    IN
    /\ pc = "wr_put"
    /\ UNCHANGED <<opt_vars, bud_vars>>
    /\ Commit(m1)
    /\ Return("write", I2S_DIR_TX, "none", p.ret, "put", m1)

WritePut == WritePutStep /\ UNCHANGED scn_vars

(* ------------------------ interrupts being taken ------------------------ *)
\* a DMA channel raises its completion interrupt when it is started, the
\* peripheral is enabled with the channel's DMA request, and interrupts are
\* not locked
DmaCanComplete(d) ==
    ~irq_locked /\ dma_active[d] /\ dmareq[d] /\ i2s_enabled

DmaRxCallback(status, slab_ok, reload_ok) ==
    LET r == dma_rx_callback(M, status, slab_ok, reload_ok)
    IN
    /\ DmaCanComplete(I2S_DIR_RX)
    \* one choice of the answers the handler does not ask for
    /\ status # 0 => slab_ok
    /\ (status # 0 \/ ~slab_ok) => reload_ok
    /\ Commit(r.m)
    /\ TakeIrq
    /\ UNCHANGED <<opt_vars, scn_vars, pc, call>>
    /\ ev' = Ev("dma_rx_callback", I2S_DIR_RX, "none", TRUE, 0, r.path, r.m.ub)

DmaTxCallbackStep(status, reload_ok) ==
    LET r == dma_tx_callback(M, status, reload_ok)
    IN
    /\ DmaCanComplete(I2S_DIR_TX)
    /\ status # 0 => reload_ok
    /\ Commit(r.m)
    /\ TakeIrq
    /\ UNCHANGED <<opt_vars, pc, call>>
    /\ ev' = Ev("dma_tx_callback", I2S_DIR_TX, "none", TRUE, 0, r.path, r.m.ub)

DmaTxCallback(status, reload_ok) ==
    DmaTxCallbackStep(status, reload_ok) /\ UNCHANGED scn_vars

\* the peripheral raises its error interrupt (overrun, underrun, frame error)
Isr ==
    LET m1 == i2s_stm32_isr(M)
    IN
    /\ ~irq_locked /\ err_it /\ i2s_enabled
    /\ Commit(m1)
    /\ TakeIrq
    /\ UNCHANGED <<opt_vars, scn_vars, pc, call>>
    /\ ev' = Ev("i2s_stm32_isr", "none", "none", TRUE, 0, "isr", m1.ub)

(* --------------------------- the specification -------------------------- *)
\* no block carries a tag and nothing has been written or read back
LoopVarsInit ==
    /\ tag = [b \in Blocks |-> 0]
    /\ n_written = 0
    /\ n_read = 0
    /\ tx_sent = FALSE

\* i2s_stm32_initialize and the static initialisers of I2S_INIT; no call has
\* been made and no interrupt taken
DrvInit ==
    /\ state = [d \in Dirs |-> I2S_STATE_NOT_READY]
    /\ mem_block = [d \in Dirs |-> NULL]
    /\ mem_block_size = [d \in Dirs |-> 0]
    /\ last_block = [d \in Dirs |-> FALSE]
    /\ mem_block_queue = [d \in Dirs |-> ring_buf(BlockCount(d) + 1)]
    /\ sem = [d \in Dirs |-> IF d = I2S_DIR_RX THEN 0 ELSE TX_BLOCK_COUNT]
    /\ cfg = [d \in Dirs |-> 0]
    /\ last_mem_block = NULL
    /\ last_mem_block_size = 0
    /\ tx_underrun = FALSE
    /\ slab_free = Blocks
    /\ dma_active = [d \in Dirs |-> FALSE]
    /\ dma_addr = [d \in Dirs |-> NULL]
    /\ dmareq = [d \in Dirs |-> FALSE]
    /\ err_it = FALSE
    /\ i2s_enabled = FALSE
    /\ transfer_mode = "TX"
    /\ irq_locked = FALSE
    /\ pc = "idle"
    /\ call = NoCall
    /\ ev = [op |-> "init", dir |-> "none", cmd |-> "none", done |-> TRUE,
             ret |-> 0, path |-> "init", ub |-> {}, block |-> NULL,
             pre |-> [d \in Dirs |-> I2S_STATE_NOT_READY], stopped |-> {}]

Init ==
    /\ RX_OVERRUN_DROP \in BOOLEAN
    /\ TX_UNDERRUN_LAST_REPEAT \in BOOLEAN
    /\ DrvInit
    /\ n_calls = MaxCalls
    /\ n_irqs = MaxIrqs
    /\ rb = ring_buf(RX_BLOCK_COUNT + 1)
    /\ put_log = <<>>
    /\ get_log = <<>>
    /\ q_call = NoQueueCall
    /\ LoopVarsInit

Next ==
    \/ \E dir \in Dirs \cup {I2S_DIR_BOTH}, cmd \in Cmds : Trigger(dir, cmd)
    \/ \E slab_ok, rx_dma_ok, tx_dma_ok \in BOOLEAN :
           TriggerStartHw(slab_ok, rx_dma_ok, tx_dma_ok)
    \/ TriggerStartFinish
    \/ TriggerDisable
    \/ TriggerPrepareState
    \/ TriggerPrepareRxDrain
    \/ TriggerPrepareRxReset
    \/ TriggerPrepareTxDrain
    \/ TriggerPrepareTxTail
    \/ \E dir \in Dirs \cup {I2S_DIR_BOTH}, f \in {0, 1}, ok \in BOOLEAN :
           Configure(dir, f, ok)
    \/ \E trap \in BOOLEAN : ConfigureFinish(trap)
    \/ Read
    \/ ReadTake
    \/ ReadGet
    \/ Write
    \/ WriteTake
    \/ WritePut
    \/ \E status \in {0, -EIO}, slab_ok, ok \in BOOLEAN :
           DmaRxCallback(status, slab_ok, ok)
    \/ \E status \in {0, -EIO}, ok \in BOOLEAN : DmaTxCallback(status, ok)
    \/ Isr

Spec == Init /\ [][Next]_vars

(* ------------------- the block queue on its own -------------------------- *)
\* One producer calls queue_put and one consumer queue_get on a ring buffer of
\* any length up to MaxRingLen; both run under irq_lock, so each call is one
\* step.  put_log and get_log keep the items of the calls that returned 0.
\* The consumer passes the same two variables to every queue_get, as the
\* loops of rx_queue_drop and tx_queue_drop do; q_call holds them.
QPut(b, sz) ==
    /\ Len(put_log) < MaxQueueOps
    /\ rb' = queue_put(rb, b, sz).rb
    /\ put_log' = IF queue_put(rb, b, sz).ret = 0
                  THEN Append(put_log, queue_item(b, sz)) ELSE put_log
    /\ q_call' = [q_call EXCEPT !.op = "queue_put",
                                !.ret = queue_put(rb, b, sz).ret]
    /\ UNCHANGED <<get_log, opt_vars, drv_vars, pc, call, ev, bud_vars,
                   loop_vars>>

QGet ==
    /\ rb' = queue_get(rb, NULL, 0).rb
    /\ get_log' = IF queue_get(rb, NULL, 0).ret = 0
                  THEN Append(get_log,
                              queue_item(queue_get(rb, NULL, 0).mem_block,
                                         queue_get(rb, NULL, 0).size))
                  ELSE get_log
    /\ q_call' = [op |-> "queue_get",
                  ret |-> queue_get(rb, q_call.mem_block, q_call.size).ret,
                  mem_block |->
                      queue_get(rb, q_call.mem_block, q_call.size).mem_block,
                  size |-> queue_get(rb, q_call.mem_block, q_call.size).size]
    /\ UNCHANGED <<put_log, opt_vars, drv_vars, pc, call, ev, bud_vars,
                   loop_vars>>

InitQ ==
    /\ RX_OVERRUN_DROP = FALSE
    /\ TX_UNDERRUN_LAST_REPEAT = FALSE
    /\ DrvInit
    /\ n_calls = MaxCalls
    /\ n_irqs = MaxIrqs
    /\ rb \in {ring_buf(len) : len \in 2..MaxRingLen}
    /\ put_log = <<>>
    /\ get_log = <<>>
    /\ q_call = NoQueueCall
    /\ LoopVarsInit

NextQ ==
    \/ \E b \in RxSlab, sz \in {BLOCK_SIZE, BLOCK_SIZE + 1} : QPut(b, sz)
    \/ QGet

QSpec == InitQ /\ [][NextQ]_vars

(* --------------------------- the loopback -------------------------------- *)
\* The serial data output is wired to the serial data input.  The application
\* configures and starts the streams, writes blocks it tags 1, 2, ... and
\* reads blocks back; the underrun and overrun options are off (block mode),
\* every allocation and every reload in a handler succeeds and no transfer
\* reports an error.  The wire carries the data of the block the TX channel
\* is armed with into the block the RX channel is armed with, once; the TX
\* channel completes a block that has gone over the wire and the RX channel
\* one that has been filled, in either order.

\* i2s_stm32_write returning: the block queued by queue_put carries the next
\* tag
LoopWritePut ==
    /\ WritePutStep
    /\ IF queue_put(mem_block_queue[I2S_DIR_TX], call.arg, BLOCK_SIZE).ret = 0
       THEN /\ tag' = [tag EXCEPT ![call.arg] = n_written + 1]
            /\ n_written' = n_written + 1
       ELSE UNCHANGED <<tag, n_written>>
    /\ UNCHANGED <<q_vars, n_read, tx_sent>>

\* i2s_stm32_read returning: the application takes the data out of the block
\* queue_get gave it and returns the block to the slab
LoopReadGet ==
    LET g == queue_get(mem_block_queue[I2S_DIR_RX], NULL, 0)
    IN
    /\ ReadGetStep
    /\ IF g.ret = 0
       THEN /\ tag' = [tag EXCEPT ![g.mem_block] = 0]
            /\ n_read' = n_read + 1
       ELSE UNCHANGED <<tag, n_read>>
    /\ UNCHANGED <<q_vars, n_written, tx_sent>>

\* the peripheral shifts the block of the TX channel out and into the block
\* of the RX channel
LoopTransfer ==
    /\ i2s_enabled
    /\ \A d \in Dirs : dma_active[d] /\ dmareq[d] /\ dma_addr[d] # NULL
    /\ ~tx_sent
    /\ tag[dma_addr[I2S_DIR_RX]] = 0
    /\ tag' = [tag EXCEPT ![dma_addr[I2S_DIR_RX]] = tag[dma_addr[I2S_DIR_TX]]]
    /\ tx_sent' = TRUE
    /\ UNCHANGED <<opt_vars, drv_vars, pc, call, ev, bud_vars, q_vars,
                   n_written, n_read>>

\* dma_tx_callback for a block that has gone over the wire; the channel is
\* then armed with the next block, if any
LoopDmaTx ==
    /\ tx_sent
    /\ DmaTxCallbackStep(0, TRUE)
    /\ tx_sent' = FALSE
    /\ UNCHANGED <<q_vars, tag, n_written, n_read>>

\* dma_rx_callback for a block the wire has filled
LoopDmaRx ==
    /\ dma_addr[I2S_DIR_RX] # NULL
    /\ tag[dma_addr[I2S_DIR_RX]] # 0
    /\ DmaRxCallback(0, TRUE, TRUE)

LoopInit ==
    /\ RX_OVERRUN_DROP = FALSE
    /\ TX_UNDERRUN_LAST_REPEAT = FALSE
    /\ DrvInit
    /\ n_calls = MaxLoopCalls
    /\ n_irqs = MaxLoopIrqs
    /\ rb = ring_buf(RX_BLOCK_COUNT + 1)
    /\ put_log = <<>>
    /\ get_log = <<>>
    /\ q_call = NoQueueCall
    /\ LoopVarsInit

LoopNext ==
    \/ \E dir \in Dirs \cup {I2S_DIR_BOTH} : Configure(dir, 1, TRUE)
    \/ ConfigureFinish(FALSE)
    \/ \E dir \in Dirs \cup {I2S_DIR_BOTH} : Trigger(dir, I2S_TRIGGER_START)
    \/ TriggerStartHw(TRUE, TRUE, TRUE)
    \/ TriggerStartFinish
    \/ Write
    \/ WriteTake
    \/ LoopWritePut
    \/ Read
    \/ ReadTake
    \/ LoopReadGet
    \/ LoopTransfer
    \/ LoopDmaTx
    \/ LoopDmaRx

LoopSpec == LoopInit /\ [][LoopNext]_vars

(* ----------------------------- properties ------------------------------- *)
\* C1: a per-direction START, STOP, DRAIN or PREPARE is accepted exactly from
\* its source state (READY, RUNNING, RUNNING, ERROR); issued from any other
\* state it returns an error and the stream's state, queue, semaphore count
\* and active block are unchanged.
C1_IllegalTriggerRejected ==
    [][LET required(c) ==
             CASE c = I2S_TRIGGER_START -> I2S_STATE_READY
               [] c = I2S_TRIGGER_STOP -> I2S_STATE_RUNNING
               [] c = I2S_TRIGGER_DRAIN -> I2S_STATE_RUNNING
               [] c = I2S_TRIGGER_PREPARE -> I2S_STATE_ERROR
       IN  \A d \in Dirs, cmd \in Cmds \ {I2S_TRIGGER_DROP} :
             (pc = "idle" /\ ev'.op = "trigger" /\ ev'.dir = d
              /\ ev'.cmd = cmd)
             => IF state[d] # required(cmd)
                THEN /\ ev'.done /\ ev'.ret < 0
                     /\ state'[d] = state[d]
                     /\ mem_block_queue'[d] = mem_block_queue[d]
                     /\ sem'[d] = sem[d]
                     /\ mem_block'[d] = mem_block[d]
                ELSE ~(ev'.done /\ ev'.ret < 0)]_vars

\* a second START, issued while the stream is RUNNING, has been rejected
C1_SecondStartRejected ==
    /\ ev.op = "trigger" /\ ev.cmd = I2S_TRIGGER_START /\ ev.dir \in Dirs
    /\ ev.done /\ ev.ret = -EIO
    /\ ev.pre[ev.dir] = I2S_STATE_RUNNING
    /\ state[ev.dir] = I2S_STATE_RUNNING

\* C2: a DROP trigger issued while the stream is READY or RUNNING (for
\* I2S_DIR_BOTH: while both streams are READY or both RUNNING) succeeds, and
\* when it returns the transfer engine is disabled, the queue is empty and
\* the state is READY.
C2_DropFromReadyOrRunning ==
    /\ (/\ ev.op = "trigger" /\ ev.cmd = I2S_TRIGGER_DROP /\ ev.path = "check"
        /\ \E st \in {I2S_STATE_READY, I2S_STATE_RUNNING} :
               \A d \in StreamsOf(ev.dir) : ev.pre[d] = st)
       => ~(ev.done /\ ev.ret < 0)
    /\ (ev.op = "trigger" /\ ev.cmd = I2S_TRIGGER_DROP /\ ev.path = "drop_act")
       => /\ ev.done /\ ev.ret = 0
          /\ \A d \in StreamsOf(ev.dir) :
                 /\ state[d] = I2S_STATE_READY
                 /\ ~dma_active[d] /\ ~dmareq[d] /\ ~i2s_enabled
                 /\ QueueEntries(mem_block_queue[d]) = <<>>

\* C3: a stream whose state is ERROR leaves ERROR only by a step of a PREPARE
\* trigger on that stream.
C3_ErrorUntilPrepare ==
    [][\A d \in Dirs :
         (state[d] = I2S_STATE_ERROR /\ state'[d] # I2S_STATE_ERROR)
         => /\ ev'.op = "trigger" /\ ev'.cmd = I2S_TRIGGER_PREPARE
            /\ d \in StreamsOf(ev'.dir)]_vars

\* C4: in full-duplex operation (both streams RUNNING), when a completion
\* handler has ended in an
\* error (DMA error status, allocation failure, queue pressure in block mode,
\* re-arm failure), both streams have state ERROR and both transfer engines
\* are disabled.
C4_FullDuplexErrorHitsBoth ==
    (/\ ev.op \in {"dma_rx_callback", "dma_tx_callback"}
     /\ transfer_mode = FULL_DUPLEX
     /\ \A d \in Dirs : ev.pre[d] = I2S_STATE_RUNNING
     /\ ev.path \in {"status", "alloc", "queue_full", "underrun", "reload"})
    => \A d \in Dirs :
           /\ state[d] = I2S_STATE_ERROR
           /\ ~dma_active[d] /\ ~dmareq[d] /\ ~i2s_enabled

\* C5: a full-duplex STOP, DRAIN or PREPARE issued while either stream is not
\* in the required state returns an error and changes nothing: neither
\* stream's state, queue, semaphore, active block or transfer engine, nor
\* anything else of the driver and the CPU (the interrupt lock included).
C5_FullDuplexRejectedNoEffect ==
    [][LET required(c) ==
             CASE c = I2S_TRIGGER_STOP -> I2S_STATE_RUNNING
               [] c = I2S_TRIGGER_DRAIN -> I2S_STATE_RUNNING
               [] c = I2S_TRIGGER_PREPARE -> I2S_STATE_ERROR
       IN  \A cmd \in {I2S_TRIGGER_STOP, I2S_TRIGGER_DRAIN,
                        I2S_TRIGGER_PREPARE} :
             (/\ pc = "idle" /\ ev'.op = "trigger" /\ ev'.dir = I2S_DIR_BOTH
              /\ ev'.cmd = cmd
              /\ \E d \in Dirs : state[d] # required(cmd))
             => /\ ev'.done /\ ev'.ret < 0
                /\ UNCHANGED drv_vars]_vars

\* C6: when the peripheral fault interrupt fires while only TX is running the
\* TX stream becomes ERROR and RX is left as it was; while only RX is running
\* the RX stream becomes ERROR and TX is left as it was; in full-duplex both
\* become ERROR.
C6_FaultHitsActiveStream ==
    [][ev'.op = "i2s_stm32_isr"
       => /\ (/\ transfer_mode = "TX"
              /\ state[I2S_DIR_TX] = I2S_STATE_RUNNING
              /\ state[I2S_DIR_RX] # I2S_STATE_RUNNING)
             => /\ state'[I2S_DIR_TX] = I2S_STATE_ERROR
                /\ state'[I2S_DIR_RX] = state[I2S_DIR_RX]
          /\ (/\ transfer_mode = "RX"
              /\ state[I2S_DIR_RX] = I2S_STATE_RUNNING
              /\ state[I2S_DIR_TX] # I2S_STATE_RUNNING)
             => /\ state'[I2S_DIR_RX] = I2S_STATE_ERROR
                /\ state'[I2S_DIR_TX] = state[I2S_DIR_TX]
          /\ (/\ transfer_mode = FULL_DUPLEX
              /\ \A d \in Dirs : state[d] = I2S_STATE_RUNNING)
             => \A d \in Dirs : state'[d] = I2S_STATE_ERROR]_vars

\* C7: without the repeat-last-block policy, a TX completion that finds the
\* queue empty while the stream is RUNNING and no stop is requested leaves
\* the stream in ERROR, its transfer engine disabled and no active block.
C7_TxUnderrunIsError ==
    [][(/\ ev'.op = "dma_tx_callback"
        /\ ~TX_UNDERRUN_LAST_REPEAT
        /\ state[I2S_DIR_TX] = I2S_STATE_RUNNING
        /\ ~last_block[I2S_DIR_TX]
        /\ QueueEntries(mem_block_queue[I2S_DIR_TX]) = <<>>)
       => /\ state'[I2S_DIR_TX] = I2S_STATE_ERROR
          /\ ~dma_active'[I2S_DIR_TX] /\ ~dmareq'[I2S_DIR_TX]
          /\ ~i2s_enabled'
          /\ mem_block'[I2S_DIR_TX] = NULL]_vars

\* a TX completion has found the queue of a RUNNING block-mode stream empty
C7_TxUnderrunHappened ==
    /\ ~TX_UNDERRUN_LAST_REPEAT
    /\ ev.op = "dma_tx_callback" /\ ev.path = "underrun"
    /\ ev.pre[I2S_DIR_TX] = I2S_STATE_RUNNING
    /\ state[I2S_DIR_TX] = I2S_STATE_ERROR

\* C8: with the repeat-last-block policy, a TX completion (no DMA error
\* reported, re-arm accepted) that finds the queue empty while the stream is
\* RUNNING re-arms the transfer engine with the block just sent, which is
\* kept as the cached last block and stays out of the pool; the state stays
\* RUNNING and the TX semaphore count is unchanged.  This holds for every
\* such completion, the first and the ones that follow it.
C8_RepeatLastBlock ==
    [][(/\ ev'.op = "dma_tx_callback"
        /\ ev'.path \notin {"status", "reload"}
        /\ TX_UNDERRUN_LAST_REPEAT
        /\ state[I2S_DIR_TX] = I2S_STATE_RUNNING
        /\ ~last_block[I2S_DIR_TX]
        /\ QueueEntries(mem_block_queue[I2S_DIR_TX]) = <<>>)
       => /\ state'[I2S_DIR_TX] = I2S_STATE_RUNNING
          /\ mem_block[I2S_DIR_TX] # NULL
          /\ mem_block'[I2S_DIR_TX] = mem_block[I2S_DIR_TX]
          /\ last_mem_block' = mem_block[I2S_DIR_TX]
          /\ dma_active'[I2S_DIR_TX]
          /\ dma_addr'[I2S_DIR_TX] = mem_block[I2S_DIR_TX]
          /\ mem_block[I2S_DIR_TX] \notin slab_free'
          /\ sem'[I2S_DIR_TX] = sem[I2S_DIR_TX]]_vars

\* the cached block has been sent again, by a completion that follows an
\* earlier one, while a writer that holds the semaphore has yet to queue
C8_RepeatedWhileWriterWaits ==
    /\ TX_UNDERRUN_LAST_REPEAT
    /\ ev.op = "dma_tx_callback" /\ ev.path = "repeat"
    /\ ev.pre[I2S_DIR_TX] = I2S_STATE_RUNNING
    /\ state[I2S_DIR_TX] = I2S_STATE_RUNNING
    /\ n_irqs = 0
    /\ dma_addr[I2S_DIR_TX] = last_mem_block
    /\ pc = "wr_put" /\ sem[I2S_DIR_TX] < TX_BLOCK_COUNT

\* C9: with the RX drop policy, an RX completion (no DMA error reported, next
\* block allocated, re-arm accepted) that finds the queue at capacity while
\* the stream is RUNNING returns the completed block to the pool; the state
\* stays RUNNING, the RX semaphore count and the queued entries are unchanged
\* and the block is not queued.  A read returns the oldest queued entry, so
\* it never returns a block that was dropped.
C9_RxOverrunDrop ==
    [][/\ (/\ ev'.op = "dma_rx_callback"
           /\ ev'.path \notin {"status", "alloc", "reload"}
           /\ RX_OVERRUN_DROP
           /\ state[I2S_DIR_RX] = I2S_STATE_RUNNING
           /\ Len(QueueEntries(mem_block_queue[I2S_DIR_RX])) =
                  mem_block_queue[I2S_DIR_RX].len - 1)
          => /\ mem_block[I2S_DIR_RX] # NULL
             /\ mem_block[I2S_DIR_RX] \in slab_free'
             /\ state'[I2S_DIR_RX] = I2S_STATE_RUNNING
             /\ sem'[I2S_DIR_RX] = sem[I2S_DIR_RX]
             /\ QueueEntries(mem_block_queue'[I2S_DIR_RX]) =
                    QueueEntries(mem_block_queue[I2S_DIR_RX])
             /\ mem_block[I2S_DIR_RX] \notin
                    QueueBlocks(mem_block_queue'[I2S_DIR_RX])
       /\ (ev'.op = "read" /\ ev'.path = "get" /\ ev'.ret = 0)
          => /\ QueueEntries(mem_block_queue[I2S_DIR_RX]) # <<>>
             /\ ev'.block =
                    Head(QueueEntries(mem_block_queue[I2S_DIR_RX])).mem_block
             /\ QueueEntries(mem_block_queue'[I2S_DIR_RX]) =
                    Tail(QueueEntries(mem_block_queue[I2S_DIR_RX]))]_vars

\* a completed block has been dropped because the queue was at capacity
C9_BlockDropped ==
    /\ RX_OVERRUN_DROP
    /\ ev.op = "dma_rx_callback" /\ ev.path = "overrun_drop"
    /\ ev.pre[I2S_DIR_RX] = I2S_STATE_RUNNING
    /\ state[I2S_DIR_RX] = I2S_STATE_RUNNING
    /\ Len(QueueEntries(mem_block_queue[I2S_DIR_RX])) = RX_BLOCK_COUNT

\* C10: on a ring of C + 1 slots, after N successful puts and M successful
\* gets the queue holds N - M entries, which is (head - tail) mod (C + 1) and
\* at most C; head and tail stay within 0..C; and the k-th successful get
\* returns the item of the k-th successful put.
C10_QueueIsFifo ==
    /\ rb.head \in 0..(rb.len - 1)
    /\ rb.tail \in 0..(rb.len - 1)
    /\ Len(get_log) <= Len(put_log)
    /\ Len(QueueEntries(rb)) = Len(put_log) - Len(get_log)
    /\ Len(QueueEntries(rb)) = (rb.head - rb.tail) % rb.len
    /\ Len(QueueEntries(rb)) <= rb.len - 1
    /\ \A k \in 1..Len(get_log) : get_log[k] = put_log[k]
    /\ \A k \in 1..Len(QueueEntries(rb)) :
           QueueEntries(rb)[k] = put_log[Len(get_log) + k]

\* the ring has wrapped around and is full again after two gets
C10_WrappedAndFull ==
    /\ Len(get_log) >= 2
    /\ rb.head < rb.tail
    /\ Len(put_log) - Len(get_log) = rb.len - 1
    /\ rb.len > 2

\* C11: queue_put on a ring that already holds C entries returns -ENOMEM and
\* leaves head, tail and every slot as they were; queue_get on a ring with no
\* entry returns -ENOMEM and leaves head, tail, every slot and the caller's
\* block and size variables as they were.
C11_FullAndEmptyRejected ==
    [][/\ (q_call'.op = "queue_put"
           /\ Len(QueueEntries(rb)) = rb.len - 1)
          => /\ q_call'.ret = -ENOMEM
             /\ rb' = rb
             /\ put_log' = put_log
       /\ (q_call'.op = "queue_get" /\ QueueEntries(rb) = <<>>)
          => /\ q_call'.ret = -ENOMEM
             /\ rb' = rb
             /\ q_call'.mem_block = q_call.mem_block
             /\ q_call'.size = q_call.size]_vars

\* a queue_put has been refused by a ring that is full after it wrapped
\* around, the consumer's variables still holding the item it got last
C11_PutRefusedWhenFull ==
    /\ q_call.op = "queue_put" /\ q_call.ret = -ENOMEM
    /\ Len(QueueEntries(rb)) = rb.len - 1
    /\ rb.head < rb.tail
    /\ q_call.mem_block # NULL

\* C12 as stated: the TX semaphore count plus the number of entries in the TX
\* queue never exceeds the capacity of the TX queue, and equals it whenever
\* no write holds the semaphore it took and no handler is running (a handler
\* runs to its end within one step); a write that has taken the semaphore
\* does not fail with queue-full.
C12_TxSemThrottlesWriters ==
    /\ sem[I2S_DIR_TX] + Len(QueueEntries(mem_block_queue[I2S_DIR_TX]))
           <= TX_BLOCK_COUNT
    /\ pc # "wr_put"
       => sem[I2S_DIR_TX] + Len(QueueEntries(mem_block_queue[I2S_DIR_TX]))
              = TX_BLOCK_COUNT
    /\ (ev.op = "write" /\ ev.path = "put") => ev.ret = 0

\* C12: the TX semaphore count plus the number of entries in the TX queue
\* never exceeds the capacity of the TX queue, and equals it whenever no
\* write holds the semaphore it took, no handler is running and no trigger
\* is between the two loops of tx_queue_drop (entries freed, semaphore not
\* yet given back); a write that has taken the semaphore does not fail with
\* queue-full.
C12_TxSemThrottlesWritersOutsideDrop ==
    /\ sem[I2S_DIR_TX] + Len(QueueEntries(mem_block_queue[I2S_DIR_TX]))
           <= TX_BLOCK_COUNT
    /\ pc \notin {"wr_put", "prep_tx_tail"}
       => sem[I2S_DIR_TX] + Len(QueueEntries(mem_block_queue[I2S_DIR_TX]))
              = TX_BLOCK_COUNT
    /\ (ev.op = "write" /\ ev.path = "put") => ev.ret = 0

\* a write has queued a block on a RUNNING stream after a completion handler
\* ran, the queue now being at capacity and the semaphore at 0
C12_WriteFilledQueue ==
    /\ ev.op = "write" /\ ev.path = "put" /\ ev.ret = 0
    /\ state[I2S_DIR_TX] = I2S_STATE_RUNNING
    /\ n_irqs < MaxIrqs
    /\ Len(QueueEntries(mem_block_queue[I2S_DIR_TX])) = TX_BLOCK_COUNT
    /\ sem[I2S_DIR_TX] = 0

\* C13: whenever the application is between calls and no handler is running,
\* the RX semaphore count equals the number of entries in the RX queue; a
\* handler gives the semaphore once when it queues a block and not at all
\* otherwise; and a read that has taken the semaphore gets a block.
C13_RxSemCountsQueuedBlocks ==
    /\ pc = "idle"
       => sem[I2S_DIR_RX] = Len(QueueEntries(mem_block_queue[I2S_DIR_RX]))
    /\ (ev.op = "dma_rx_callback" /\ ev.path = "ok")
       => sem[I2S_DIR_RX] >= 1
    /\ (ev.op = "read" /\ ev.path = "get") => ev.ret = 0

\* C14: when a STOP, DRAIN or DROP trigger returns 0, whatever handlers ran
\* during it, each stream it names has its DMA channel stopped, its DMA
\* request and the peripheral disabled, an empty queue, no active block and
\* state READY, and every block that was queued is back in the pool; and no
\* completion handler runs for a stream so stopped before a START for it.
C14_StopLeavesStreamQuiet ==
    [][/\ (/\ ev'.op = "trigger" /\ ev'.done /\ ev'.ret = 0
           /\ ev'.cmd \in {I2S_TRIGGER_STOP, I2S_TRIGGER_DRAIN,
                            I2S_TRIGGER_DROP})
          => \A d \in StreamsOf(ev'.dir) :
                 /\ ~dma_active'[d] /\ ~dmareq'[d] /\ ~i2s_enabled'
                 /\ QueueEntries(mem_block_queue'[d]) = <<>>
                 /\ QueueBlocks(mem_block_queue[d]) \subseteq slab_free'
                 /\ mem_block'[d] = NULL
                 /\ state'[d] = I2S_STATE_READY
       /\ ev'.op = "dma_rx_callback" => I2S_DIR_RX \notin ev.stopped
       /\ ev'.op = "dma_tx_callback" => I2S_DIR_TX \notin ev.stopped]_vars

\* a STOP has returned 0 after a completion handler ran between its state
\* test and its disabling of the stream, with a block queued when it began
C14_StopRacedWithHandler ==
    /\ ev.op = "trigger" /\ ev.cmd = I2S_TRIGGER_STOP /\ ev.done /\ ev.ret = 0
    /\ ev.dir = I2S_DIR_RX
    /\ ev.pre[I2S_DIR_RX] = I2S_STATE_ERROR
    /\ n_irqs = 0
    /\ I2S_DIR_RX \in ev.stopped
    /\ slab_free = Blocks

\* C15: both streams start in NOT_READY, and a stream in NOT_READY becomes
\* READY or RUNNING only by the step in which a configure call naming it
\* returns 0; no trigger and no handler moves it there.
C15_ReadyOnlyByConfigure ==
    /\ \A d \in Dirs : state[d] = I2S_STATE_NOT_READY
    /\ [][\A d \in Dirs :
             (/\ state[d] = I2S_STATE_NOT_READY
              /\ state'[d] \in {I2S_STATE_READY, I2S_STATE_RUNNING})
             => /\ ev'.op = "configure" /\ ev'.done /\ ev'.ret = 0
                /\ d \in StreamsOf(ev'.dir)]_vars

C17_RejectedConfigureChangesNothing ==
    [][/\ (pc = "idle" /\ ev'.op = "configure" /\ pc' # "fault")
          => \A d \in StreamsOf(ev'.dir) :
                 ev'.pre[d] = I2S_STATE_RUNNING
                 => /\ ev'.done /\ ev'.ret < 0
                    /\ state'[d] = state[d]
                    /\ cfg'[d] = cfg[d]
       /\ (pc = "cfg_fin" /\ pc' = "idle" /\ ev'.ret < 0)
          => /\ call.arg.after = call.arg.before
             /\ state' = state]_vars

\* a configure call for a stream that is RUNNING was rejected
C17_ConfigureRejectedWhileRunning ==
    /\ ev.op = "configure"
    /\ ev.done
    /\ ev.ret = -EINVAL
    /\ ev.path = "stream"
    /\ \E d \in StreamsOf(ev.dir) : state[d] = I2S_STATE_RUNNING

\* C18 (a failed read or write changes nothing): a read on an RX stream that
\* is NOT_READY or in ERROR and a write on a TX stream that is neither READY
\* nor RUNNING return -EIO at once and leave the driver as it was, semaphores
\* and queues included; the steps of a read or write up to the semaphore
\* wait change nothing of the streams, and a wait that times out returns
\* -EAGAIN and leaves the stream states, the queues and the semaphore counts
\* as they were.
C18_FailedReadWriteChangesNothing ==
    [][/\ (pc = "idle" /\ ev'.op = "read" /\ pc' \in {"idle", "rd_take"})
          => /\ (state[I2S_DIR_RX] \in {I2S_STATE_NOT_READY, I2S_STATE_ERROR})
                   <=> (pc' = "idle" /\ ev'.ret = -EIO)
             /\ UNCHANGED drv_vars
       /\ (pc = "idle" /\ ev'.op = "write" /\ pc' \in {"idle", "wr_take"})
          => /\ (state[I2S_DIR_TX] \notin {I2S_STATE_READY, I2S_STATE_RUNNING})
                   <=> (pc' = "idle" /\ ev'.ret = -EIO)
             /\ pc' = "idle" => UNCHANGED drv_vars
             /\ UNCHANGED <<state, mem_block, mem_block_queue, sem>>
       /\ (pc \in {"rd_take", "wr_take"} /\ pc' = "idle")
          => /\ ev'.ret = -EAGAIN
             /\ UNCHANGED <<state, mem_block, mem_block_queue, sem>>]_vars

\* a read timed out on a RUNNING RX stream, which is still RUNNING
C18_ReadTimedOutWhileRunning ==
    /\ ev.op = "read"
    /\ ev.done
    /\ ev.ret = -EAGAIN
    /\ state[I2S_DIR_RX] = I2S_STATE_RUNNING

\* C19 (a transfer error ends in ERROR, disabled): when a completion handler
\* of a stream in half duplex ends because the transfer completed with a
\* non-zero status or because reloading the channel with the next block
\* failed, the stream is in ERROR and its channel is stopped, with its DMA
\* request off, when the handler returns.
C19_TransferErrorEndsInError ==
    [][\A d \in Dirs :
          (/\ ev' # ev
           /\ ev'.op = (IF d = I2S_DIR_RX THEN "dma_rx_callback"
                                          ELSE "dma_tx_callback")
           /\ ev'.path \in {"status", "reload"}
           /\ ~IsFullDuplexMode(M))
          => /\ state'[d] = I2S_STATE_ERROR
             /\ ~dma_active'[d]
             /\ ~dmareq'[d]]_vars

\* C20 (a failed allocation is fatal): when k_mem_slab_alloc fails in
\* dma_rx_callback, the handler returns with the RX stream in ERROR, its
\* channel stopped, its DMA request off and no block armed, whether or not
\* overruns are dropped.
C20_RxAllocFailureIsFatal ==
    [][(ev' # ev /\ ev'.op = "dma_rx_callback" /\ ev'.path = "alloc")
          => /\ state'[I2S_DIR_RX] = I2S_STATE_ERROR
             /\ ~dma_active'[I2S_DIR_RX]
             /\ ~dmareq'[I2S_DIR_RX]
             /\ dma_addr'[I2S_DIR_RX] = NULL]_vars

\* the allocation failed in a handler of a build that drops overruns
C20_AllocFailedWithOverrunDrop ==
    /\ RX_OVERRUN_DROP
    /\ ev.op = "dma_rx_callback"
    /\ ev.path = "alloc"
    /\ ev.pre[I2S_DIR_RX] = I2S_STATE_RUNNING
    /\ state[I2S_DIR_RX] = I2S_STATE_ERROR

\* C21 (a full RX queue is fatal in block mode): when overruns are not
\* dropped and dma_rx_callback gets as far as its queue_put while the RX queue
\* is full, the handler returns with the RX stream in ERROR, its channel
\* stopped and its DMA request off, the RX semaphore as it was and the
\* entries of the queue as they were.
C21_RxQueueFullIsFatal ==
    [][(/\ ev' # ev
        /\ ev'.op = "dma_rx_callback"
        /\ ~RX_OVERRUN_DROP
        /\ Len(QueueEntries(mem_block_queue[I2S_DIR_RX])) = RX_BLOCK_COUNT
        /\ ev'.path \notin {"status", "state_error", "alloc", "reload"})
          => /\ ev'.path = "queue_full"
             /\ state'[I2S_DIR_RX] = I2S_STATE_ERROR
             /\ ~dma_active'[I2S_DIR_RX]
             /\ ~dmareq'[I2S_DIR_RX]
             /\ sem'[I2S_DIR_RX] = sem[I2S_DIR_RX]
             /\ QueueEntries(mem_block_queue'[I2S_DIR_RX])
                    = QueueEntries(mem_block_queue[I2S_DIR_RX])]_vars

\* a completion found the RX queue full while a reader had taken the
\* semaphore and not yet the block
C21_QueueFullWhileReading ==
    /\ ~RX_OVERRUN_DROP
    /\ ev.op = "dma_rx_callback"
    /\ ev.path = "queue_full"
    /\ pc = "rd_get"
    /\ state[I2S_DIR_RX] = I2S_STATE_ERROR
    /\ Len(QueueEntries(mem_block_queue[I2S_DIR_RX])) = RX_BLOCK_COUNT

\* C22 (active block iff RUNNING): whenever no call of the application is in
\* progress (no start and no disable is under way; the handlers are single
\* steps), a stream holds an active block exactly when its state is RUNNING.
C22_ActiveBlockIffRunning ==
    pc = "idle"
        => \A d \in Dirs :
               mem_block[d] # NULL <=> state[d] = I2S_STATE_RUNNING

\* C23 (block ownership is exclusive): no step returns a block to a slab that
\* the slab already has; no block of a slab's free list is the block a
\* started channel is armed with, a stream's active block, an entry of a
\* queue or the cached last block; and the block a write call has not queued
\* yet, which is the application's, is none of these either.
C23_BlockOwnershipExclusive ==
    /\ "double_free" \notin ev.ub
    /\ \A b \in slab_free :
           /\ \A d \in Dirs :
                  /\ ~(dma_active[d] /\ dma_addr[d] = b)
                  /\ mem_block[d] # b
                  /\ b \notin QueueBlocks(mem_block_queue[d])
           /\ last_mem_block # b
    /\ pc \in {"wr_take", "wr_put"}
           => /\ \A d \in Dirs :
                     /\ mem_block[d] # call.arg
                     /\ call.arg \notin QueueBlocks(mem_block_queue[d])
              /\ last_mem_block # call.arg

\* C24 (no block is leaked): whenever no call of the application is in
\* progress (the handlers are single steps, and a block given out by read is
\* back in its slab when the read returns), every block that is not in its
\* slab is a stream's active block, an entry of a queue or the cached last
\* block.
C24_NoBlockLeaked ==
    pc = "idle"
        => \A b \in Blocks \ slab_free :
               \/ \E d \in Dirs :
                      \/ mem_block[d] = b
                      \/ b \in QueueBlocks(mem_block_queue[d])
               \/ last_mem_block = b

\* C25 (a failed START has no side effect): when the start of the hardware
\* fails in a START trigger, the trigger returns with the states of its
\* streams as they were, no active block held by them, none of their
\* channels started, and their queues, their semaphores and the slabs as
\* they were; and a START that passes the state test finds the active blocks
\* of its streams null, as it asserts.
C25_FailedStartNoSideEffect ==
    [][/\ (pc = "start_hw" /\ pc' = "idle" /\ ev'.ret < 0)
          => \A d \in StreamsOf(call.dir) :
                 /\ state'[d] = state[d]
                 /\ mem_block'[d] = NULL
                 /\ ~dma_active'[d]
                 /\ mem_block_queue'[d] = mem_block_queue[d]
                 /\ sem'[d] = sem[d]
                 /\ slab_free' = slab_free
       /\ (pc = "idle" /\ pc' = "start_hw")
          => "assert" \notin ev'.ub]_vars

\* C26 (no trigger returns with interrupts locked): when a trigger call has
\* returned, with 0 or with an error, interrupts are not locked.
C26_TriggerReleasesIrqLock ==
    (pc = "idle" /\ ev.op = "trigger" /\ ev.done) => ~irq_locked

\* C27 (reload before hand-off): every step of dma_rx_callback that adds a
\* block to the RX queue adds the block that was the active one, and leaves
\* the stream with another, non-null active block that the started RX
\* channel is armed with; the same holds of every step of the handler on its
\* success path, which also leaves the RX semaphore above zero.
C27_RxReloadBeforeHandOff ==
    [][(/\ ev' # ev
        /\ ev'.op = "dma_rx_callback"
        /\ \/ QueueEntries(mem_block_queue'[I2S_DIR_RX])
                  # QueueEntries(mem_block_queue[I2S_DIR_RX])
           \/ ev'.path = "ok")
          => /\ QueueEntries(mem_block_queue'[I2S_DIR_RX])
                   = Append(QueueEntries(mem_block_queue[I2S_DIR_RX]),
                            queue_item(mem_block[I2S_DIR_RX], cfg[I2S_DIR_RX]))
             /\ mem_block'[I2S_DIR_RX] # NULL
             /\ mem_block'[I2S_DIR_RX] # mem_block[I2S_DIR_RX]
             /\ dma_active'[I2S_DIR_RX]
             /\ dma_addr'[I2S_DIR_RX] = mem_block'[I2S_DIR_RX]
             /\ sem'[I2S_DIR_RX] > 0]_vars

\* a completion queued a block while a reader was waiting for it, and the
\* channel is armed with the next block
C27_BlockHandedOffWhileArmed ==
    /\ ev.op = "dma_rx_callback"
    /\ ev.path = "ok"
    /\ pc = "rd_take"
    /\ sem[I2S_DIR_RX] = 1
    /\ Len(QueueEntries(mem_block_queue[I2S_DIR_RX])) = 1
    /\ dma_active[I2S_DIR_RX]
    /\ dma_addr[I2S_DIR_RX] = mem_block[I2S_DIR_RX]
    /\ mem_block[I2S_DIR_RX] # NULL

C29_NeverStopping ==
    /\ \A d \in Dirs :
           state[d] \in {I2S_STATE_NOT_READY, I2S_STATE_READY,
                         I2S_STATE_RUNNING, I2S_STATE_ERROR}
    /\ ev.op \in {"dma_rx_callback", "dma_tx_callback"}
           => ev.path # "stopping"

\* a DRAIN of a running TX stream was accepted and has returned, leaving the
\* stream READY
C29_DrainAcceptedWhileRunning ==
    /\ pc = "idle"
    /\ ev.op = "trigger"
    /\ ev.cmd = I2S_TRIGGER_DRAIN
    /\ ev.dir = I2S_DIR_TX
    /\ ev.done
    /\ ev.ret = 0
    /\ ev.pre[I2S_DIR_TX] = I2S_STATE_RUNNING
    /\ state[I2S_DIR_TX] = I2S_STATE_READY

\* C30 (configure with frequency 0 resets the stream): when a configure call
\* with frame clock frequency 0 returns, every stream it names has an empty
\* queue and is in NOT_READY; the call got past the state test, so it found
\* each of them in NOT_READY or READY.
C30_ZeroFrequencyLeavesNotReady ==
    [][(pc = "cfg_fin" /\ pc' = "idle" /\ call.arg.frame_clk_freq = 0)
          => \A d \in StreamsOf(call.dir) :
                 /\ call.arg.before[d] \in {I2S_STATE_NOT_READY,
                                            I2S_STATE_READY}
                 /\ QueueEntries(mem_block_queue'[d]) = <<>>
                 /\ state'[d] = I2S_STATE_NOT_READY]_vars

====
